---------------------------- MODULE Spec2Model ----------------------------
(***************************************************************************)
(* Model of the HausAufgaben core: the task store (src/unnamed/part_000,   *)
(* class Tasks) and the reference data resolver (src/lib/StammDaten.ts).   *)
(*                                                                         *)
(* A JavaScript string is a sequence of characters.  A character is a      *)
(* TLA+ string naming it: the character itself for ASCII ("a", " ", "\n"), *)
(* and its code point for the others ("U+2713" is the check mark, "U+007F" *)
(* is DEL).  Every character is ONE element of the sequence, so Len is the *)
(* JavaScript length.  Positions in comments are JavaScript's (0-based).   *)
(***************************************************************************)
EXTENDS Integers, Sequences, FiniteSets, TLC

VARIABLES
    modifierConfig,   \* Tasks.modifierConfig
    \* encode/decode of a subtask list
    codecPc, unteraufgabenIn, descriptionValue, decoded,
    \* normalizeHinweis applied to an input
    hinweisPc, hinweisIn, hinweisOut,
    \* one helper of Tasks applied to an input
    helperPc, helperIn, helperOut,
    \* the task store
    file,         \* the content of the task file on disk
    call,         \* the calls of updateUnteraufgabeInFile / writeUnteraufgabenToFile
    clock,        \* seconds passed on the system clock
    writeCount,   \* history: the number of writeFile calls that took effect
    \* the reference data resolver
    sourceFile,   \* the source file on disk: its mtimeMs and its content
    repository,   \* the fields of the StammdatenRepository
    lookup        \* the last lookup made and what it returned

codecVars == <<codecPc, unteraufgabenIn, descriptionValue, decoded>>
hinweisVars == <<hinweisPc, hinweisIn, hinweisOut>>
helperVars == <<helperPc, helperIn, helperOut>>
storeVars == <<file, call, clock, writeCount>>
stammVars == <<sourceFile, repository, lookup>>

-----------------------------------------------------------------------------
(* Characters *)

CHECK == "U+2713"          \* the check mark of the default status symbols
DEL == "U+007F"            \* a control character that is not whitespace
LSEP == "U+2028"           \* line separator: whitespace (\s, trim), not a control character
NBSP == "U+00A0"           \* no-break space: whitespace, NFKC: " "
FW_ASTERISK == "U+FF0A"    \* fullwidth asterisk, NFKC: "*"
FW_N == "U+FF4E"           \* fullwidth small n, NFKC: "n"
LIG_FI == "U+FB01"         \* ligature fi, NFKC: "f" "i"

\* JavaScript's \s and the characters trim() removes
IsWhitespace(c) == c \in {" ", "\t", "\n", "\r", "\f", NBSP, LSEP}

\* [\u0000-\u001F\u007F]
IsControl(c) == c \in {"\t", "\n", "\r", "\f", DEL}

-----------------------------------------------------------------------------
(* String primitives of the JavaScript runtime *)

Min(S) == CHOOSE x \in S : \A y \in S : x <= y
Max(S) == CHOOSE x \in S : \A y \in S : x >= y

\* s.slice(a, b) and s.slice(a), for 0 <= a
Slice(s, a, b) == SubSeq(s, a + 1, b)
SliceFrom(s, a) == SubSeq(s, a + 1, Len(s))

\* p occurs in s at position i
OccursAt(s, p, i) == i + Len(p) <= Len(s) /\ SubSeq(s, i + 1, i + Len(p)) = p

StartsWith(s, p) == OccursAt(s, p, 0)

EndsWith(s, p) == Len(p) <= Len(s) /\ OccursAt(s, p, Len(s) - Len(p))

\* s.indexOf(p): the first position, -1 if none
IndexOf(s, p) ==
    LET hits == {i \in 0..(Len(s) - Len(p)) : OccursAt(s, p, i)}
    IN  IF hits = {} THEN -1 ELSE Min(hits)

Includes(s, p) == IndexOf(s, p) >= 0

\* s.trim(), s.trimEnd()
Trim(s) ==
    LET keep == {i \in 1..Len(s) : ~IsWhitespace(s[i])}
    IN  IF keep = {} THEN <<>> ELSE SubSeq(s, Min(keep), Max(keep))

TrimEnd(s) ==
    LET keep == {i \in 1..Len(s) : ~IsWhitespace(s[i])}
    IN  IF keep = {} THEN <<>> ELSE SubSeq(s, 1, Max(keep))

\* s.split(sep) for a non-empty string sep
RECURSIVE Split(_, _)
Split(s, sep) ==
    LET i == IndexOf(s, sep)
    IN  IF i < 0 THEN <<s>>
        ELSE <<Slice(s, 0, i)>> \o Split(SliceFrom(s, i + Len(sep)), sep)

\* parts.join(sep)
RECURSIVE Join(_, _)
Join(parts, sep) ==
    IF Len(parts) = 0 THEN <<>>
    ELSE IF Len(parts) = 1 THEN parts[1]
    ELSE parts[1] \o sep \o Join(Tail(parts), sep)

\* s.replace(/pat/g, rep) for a literal pattern: the leftmost non-overlapping
\* occurrences, which is what split/join yields too
ReplaceAll(s, pat, rep) == Join(Split(s, pat), rep)

\* s.replace(/\s+/g, " "): the first character of a whitespace run becomes
\* a space, the rest of the run goes
CollapseWhitespace(s) ==
    LET marked == [i \in 1..Len(s) |->
                      [c |-> IF IsWhitespace(s[i]) THEN " " ELSE s[i],
                       keep |-> \/ ~IsWhitespace(s[i])
                                \/ i = 1
                                \/ ~IsWhitespace(s[i - 1])]]
        Kept(m) == m.keep
        kept == SelectSeq(marked, Kept)
    IN  [k \in 1..Len(kept) |-> kept[k].c]

\* s.replace(/[\u0000-\u001F\u007F]/g, " ")
ReplaceControl(s) == [i \in 1..Len(s) |-> IF IsControl(s[i]) THEN " " ELSE s[i]]

\* s.normalize("NFKC"), on the characters of the model
NfkcChar(c) ==
    IF c = FW_ASTERISK THEN <<"*">>
    ELSE IF c = FW_N THEN <<"n">>
    ELSE IF c = LIG_FI THEN <<"f", "i">>
    ELSE IF c = NBSP THEN <<" ">>
    ELSE <<c>>

Nfkc(s) ==
    \* a character becomes one or two characters: slot 2i-1 and 2i hold them
    LET slots == [j \in 1..(2 * Len(s)) |->
                     LET to == NfkcChar(s[(j + 1) \div 2])
                         k == ((j - 1) % 2) + 1
                     IN  IF k <= Len(to) THEN <<to[k]>> ELSE <<>>]
        Filled(slot) == slot # <<>>
        filled == SelectSeq(slots, Filled)
    IN  [k \in 1..Len(filled) |-> filled[k][1]]

\* items.sort((a, b) => size(b) - size(a)), sizes[i] being the size of
\* items[i]: stable, longest first
SortLongestFirst(items, sizes) ==
    LET Rank(i) == Cardinality({j \in 1..Len(items) :
                        \/ sizes[j] > sizes[i]
                        \/ sizes[j] = sizes[i] /\ j < i})
    IN  [r \in 1..Len(items) |-> items[CHOOSE i \in 1..Len(items) : Rank(i) = r - 1]]

\* items.findIndex(pred), hits[i] being pred of items[i]: the first position
\* (0-based) that holds, -1 if none
FindIndex(hits) ==
    LET found == {i \in 0..(Len(hits) - 1) : hits[i + 1]}
    IN  IF found = {} THEN -1 ELSE Min(found)

-----------------------------------------------------------------------------
(* Modifier configuration *)

\* An optional field of Modifier.json is the set of its values: {} when the
\* field is absent, {v} when it is v.  value ?? fallback:
Undefined == {}

Default(value, fallback) == IF value = Undefined THEN fallback ELSE CHOOSE v \in value : TRUE

\* readModifierConfig: every absent field takes its default
readModifierConfig(root) ==
    [descriptionTrennzeichen |-> Default(root.Trennzeichen, <<"\n">>),
     hinweisTrennzeichen |-> Default(root.HinweisTrennzeichen, <<"#", "#">>),
     statusSymbole |->
        [nichtBegonnen |->
            [freigegeben |-> Default(root.NichtBegonnenFreigegeben, <<"*">>),
             gesperrt |-> Default(root.NichtBegonnenGesperrt, <<".", "*">>)],
         erledigt |->
            [freigegeben |-> Default(root.ErledigtFreigegeben, <<CHECK>>),
             gesperrt |-> Default(root.ErledigtGesperrt, <<".", CHECK>>)]],
     summaryTrennzeichen |-> Default(root.SummaryTrennzeichen, <<"/", "/">>),
     summaryInhalt |-> Default(root.SummaryInhalt, <<>>)]

\* a Modifier.json that sets nothing
EmptyModifierRoot ==
    [Trennzeichen |-> Undefined, HinweisTrennzeichen |-> Undefined,
     NichtBegonnenFreigegeben |-> Undefined, NichtBegonnenGesperrt |-> Undefined,
     ErledigtFreigegeben |-> Undefined, ErledigtGesperrt |-> Undefined,
     SummaryTrennzeichen |-> Undefined, SummaryInhalt |-> Undefined]

\* the hint separator, <<>> when none is configured (the code's undefined:
\* a configured separator is never empty)
getHinweisSeparator ==
    LET raw == Trim(modifierConfig.hinweisTrennzeichen)
    IN  IF raw = <<>> THEN <<>> ELSE <<" ">> \o raw \o <<" ">>

getSteuerzeichenTokens ==
    LET tokens == <<modifierConfig.statusSymbole.nichtBegonnen.freigegeben,
                    modifierConfig.statusSymbole.nichtBegonnen.gesperrt,
                    modifierConfig.statusSymbole.erledigt.freigegeben,
                    modifierConfig.statusSymbole.erledigt.gesperrt,
                    Trim(modifierConfig.hinweisTrennzeichen),
                    modifierConfig.descriptionTrennzeichen>>
        NonEmpty(t) == t # <<>>
        kept == SelectSeq(tokens, NonEmpty)
    IN  SortLongestFirst(kept, [i \in 1..Len(kept) |-> Len(kept[i])])

toSymbol(status, freigegeben) ==
    IF ~status /\ ~freigegeben THEN modifierConfig.statusSymbole.nichtBegonnen.gesperrt
    ELSE IF status /\ ~freigegeben THEN modifierConfig.statusSymbole.erledigt.gesperrt
    ELSE IF ~status THEN modifierConfig.statusSymbole.nichtBegonnen.freigegeben
    ELSE modifierConfig.statusSymbole.erledigt.freigegeben

-----------------------------------------------------------------------------
(* Hint normalisation *)

HinweisMaxLen == 20

\* the for loop over the tokens; nothing is left to replace in an empty string
RECURSIVE RemoveTokens(_, _)
RemoveTokens(s, tokens) ==
    IF s = <<>> \/ tokens = <<>> THEN s
    ELSE RemoveTokens(Join(Split(s, tokens[1]), <<" ">>), Tail(tokens))

\* normalizeHinweis removing the tokens after it has collapsed the
\* whitespace, where the code removes them before
normalizeHinweis_TokensLast(hinweis) ==
    LET cleaned == ReplaceControl(Nfkc(hinweis))
        normalized == RemoveTokens(Trim(CollapseWhitespace(cleaned)), getSteuerzeichenTokens)
    IN  IF Len(normalized) > HinweisMaxLen
        THEN TrimEnd(Slice(normalized, 0, HinweisMaxLen))
        ELSE normalized

\* normalizeHinweis without the trimEnd() that follows the cut
normalizeHinweis_NoTrimEnd(hinweis) ==
    LET cleaned == ReplaceControl(Nfkc(hinweis))
        stripped == RemoveTokens(cleaned, getSteuerzeichenTokens)
        normalized == Trim(CollapseWhitespace(stripped))
    IN  IF Len(normalized) > HinweisMaxLen
        THEN Slice(normalized, 0, HinweisMaxLen)
        ELSE normalized

normalizeHinweis(hinweis) ==
    LET cleaned == ReplaceControl(Nfkc(hinweis))
        stripped == RemoveTokens(cleaned, getSteuerzeichenTokens)
        normalized == Trim(CollapseWhitespace(stripped))
    IN  IF Len(normalized) > HinweisMaxLen
        THEN TrimEnd(Slice(normalized, 0, HinweisMaxLen))
        ELSE normalized

-----------------------------------------------------------------------------
(* Description encoding and decoding.  A subtask's hint is a string; the   *)
(* code's undefined hint is the empty string here: the code stores         *)
(* `hinweis || undefined` and encodes `hinweis ?? ""`, so it never tells   *)
(* the two apart.                                                          *)

buildUnteraufgabeText(item) ==
    LET titel == Trim(item.titel)
        hinweis == Trim(item.hinweis)
        separator == getHinweisSeparator
    IN  IF hinweis = <<>> \/ separator = <<>> THEN titel
        ELSE titel \o separator \o hinweis

buildDescriptionValue(unteraufgaben) ==
    Join([i \in 1..Len(unteraufgaben) |->
            Trim(toSymbol(unteraufgaben[i].status, unteraufgaben[i].freigegeben)
                 \o <<" ">> \o buildUnteraufgabeText(unteraufgaben[i]))],
         modifierConfig.descriptionTrennzeichen)

\* the candidates tried in the order they are listed, without the sort
parseStatusPrefix_Unsorted(rawPart) ==
    LET candidates ==
            <<[symbol |-> modifierConfig.statusSymbole.nichtBegonnen.gesperrt,
               status |-> FALSE, freigegeben |-> FALSE],
              [symbol |-> modifierConfig.statusSymbole.erledigt.gesperrt,
               status |-> TRUE, freigegeben |-> FALSE],
              [symbol |-> modifierConfig.statusSymbole.nichtBegonnen.freigegeben,
               status |-> FALSE, freigegeben |-> TRUE],
              [symbol |-> modifierConfig.statusSymbole.erledigt.freigegeben,
               status |-> TRUE, freigegeben |-> TRUE]>>
        sorted == candidates
        hits == {k \in 1..Len(sorted) : StartsWith(rawPart, sorted[k].symbol)}
    IN  IF hits # {}
        THEN LET candidate == sorted[Min(hits)]
             IN  [symbol |-> candidate.symbol, status |-> candidate.status,
                  freigegeben |-> candidate.freigegeben,
                  inhalt |-> Trim(SliceFrom(rawPart, Len(candidate.symbol)))]
        ELSE [symbol |-> <<>>, status |-> FALSE, freigegeben |-> TRUE,
              inhalt |-> Trim(rawPart)]

parseStatusPrefix(rawPart) ==
    LET candidates ==
            <<[symbol |-> modifierConfig.statusSymbole.nichtBegonnen.gesperrt,
               status |-> FALSE, freigegeben |-> FALSE],
              [symbol |-> modifierConfig.statusSymbole.erledigt.gesperrt,
               status |-> TRUE, freigegeben |-> FALSE],
              [symbol |-> modifierConfig.statusSymbole.nichtBegonnen.freigegeben,
               status |-> FALSE, freigegeben |-> TRUE],
              [symbol |-> modifierConfig.statusSymbole.erledigt.freigegeben,
               status |-> TRUE, freigegeben |-> TRUE]>>
        sorted == SortLongestFirst(candidates,
                                   [i \in 1..Len(candidates) |-> Len(candidates[i].symbol)])
        hits == {k \in 1..Len(sorted) : StartsWith(rawPart, sorted[k].symbol)}
    IN  IF hits # {}
        THEN LET candidate == sorted[Min(hits)]
             IN  [symbol |-> candidate.symbol, status |-> candidate.status,
                  freigegeben |-> candidate.freigegeben,
                  inhalt |-> Trim(SliceFrom(rawPart, Len(candidate.symbol)))]
        ELSE [symbol |-> <<>>, status |-> FALSE, freigegeben |-> TRUE,
              inhalt |-> Trim(rawPart)]

splitTitelUndHinweis(text) ==
    LET separator == getHinweisSeparator
        separatorIndex == IndexOf(text, separator)
    IN  IF separator = <<>> THEN [titel |-> Trim(text), hinweis |-> <<>>]
        ELSE IF separatorIndex < 0 THEN [titel |-> Trim(text), hinweis |-> <<>>]
        ELSE [titel |-> Trim(Slice(text, 0, separatorIndex)),
              hinweis |-> normalizeHinweis(SliceFrom(text, separatorIndex + Len(separator)))]

\* text.split(/\s*\n\s*/): a separator is a maximal run of whitespace that
\* holds a newline (\s* is greedy on both sides of the \n)
RECURSIVE SplitNewlineRuns(_, _)
SplitNewlineRuns(s, from) ==
    \* from: the position (1-based) the scan for a separator resumes at
    LET starts == {i \in from..Len(s) :
                     /\ IsWhitespace(s[i])
                     /\ (i = 1 \/ ~IsWhitespace(s[i - 1]))
                     /\ \E j \in i..Len(s) :
                           /\ s[j] = "\n"
                           /\ \A k \in i..j : IsWhitespace(s[k])}
    IN  IF starts = {} THEN <<s>>
        ELSE LET i == Min(starts)
                 after == {j \in i..Len(s) : ~IsWhitespace(s[j])}
                 stop == IF after = {} THEN Len(s) + 1 ELSE Min(after)
             IN  <<SubSeq(s, 1, i - 1)>> \o SplitNewlineRuns(SubSeq(s, stop, Len(s)), 1)

parseUnteraufgaben(descriptionRaw) ==
    LET text == Trim(ReplaceAll(ReplaceAll(descriptionRaw, <<"\\", "n">>, <<"\n">>),
                                <<"\r", "\n">>, <<"\n">>))
        pieces == IF Includes(modifierConfig.descriptionTrennzeichen, <<"\n">>)
                  THEN SplitNewlineRuns(text, 1)
                  ELSE Split(text, modifierConfig.descriptionTrennzeichen)
        trimmed == [i \in 1..Len(pieces) |-> Trim(pieces[i])]
        NonEmpty(p) == p # <<>>
        rawParts == SelectSeq(trimmed, NonEmpty)
        Parsed(rawPart) ==
            LET parsedPrefix == parseStatusPrefix(rawPart)
                splitText == splitTitelUndHinweis(parsedPrefix.inhalt)
            IN  [symbol |-> parsedPrefix.symbol, status |-> parsedPrefix.status,
                 freigegeben |-> parsedPrefix.freigegeben, titel |-> splitText.titel,
                 hinweis |-> splitText.hinweis, raw |-> rawPart]
    IN  IF text = <<>> THEN <<>>
        ELSE [i \in 1..Len(rawParts) |-> Parsed(rawParts[i])]

\* the (done, unlocked, title, hint) tuple of a subtask
Tuple(item) ==
    [status |-> item.status, freigegeben |-> item.freigegeben,
     titel |-> item.titel, hinweis |-> item.hinweis]

Tuples(items) == [i \in 1..Len(items) |-> Tuple(items[i])]

\* the reduce over summaryInhalt: acc[key] = teile[index] ?? "", a later
\* field of the same name overwriting an earlier one
RECURSIVE FelderLoop(_, _, _, _)
FelderLoop(summaryInhalt, index, teile, acc) ==
    IF index >= Len(summaryInhalt) THEN acc
    ELSE LET key == summaryInhalt[index + 1]
             value == IF index < Len(teile) THEN teile[index + 1] ELSE <<>>
         IN  FelderLoop(summaryInhalt, index + 1, teile,
                        [k \in DOMAIN acc \cup {key} |-> IF k = key THEN value ELSE acc[k]])

\* parseSummary without the filter that drops the empty pieces
parseSummary_KeepEmpty(summaryRaw) ==
    LET pieces == Split(summaryRaw, modifierConfig.summaryTrennzeichen)
        teile == [i \in 1..Len(pieces) |-> Trim(pieces[i])]
    IN  [raw |-> summaryRaw,
         teile |-> teile,
         felder |-> FelderLoop(modifierConfig.summaryInhalt, 0, teile, [k \in {} |-> <<>>])]

parseSummary(summaryRaw) ==
    LET pieces == Split(summaryRaw, modifierConfig.summaryTrennzeichen)
        NonEmpty(item) == Len(item) > 0
        teile == SelectSeq([i \in 1..Len(pieces) |-> Trim(pieces[i])], NonEmpty)
    IN  [raw |-> summaryRaw,
         teile |-> teile,
         felder |-> FelderLoop(modifierConfig.summaryInhalt, 0, teile, [k \in {} |-> <<>>])]

-----------------------------------------------------------------------------
(* The task file: lines, properties, escaping *)

LowerLetters == <<"a", "b", "c", "d", "e", "f", "g", "h", "i", "j", "k", "l", "m",
                  "n", "o", "p", "q", "r", "s", "t", "u", "v", "w", "x", "y", "z">>
UpperLetters == <<"A", "B", "C", "D", "E", "F", "G", "H", "I", "J", "K", "L", "M",
                  "N", "O", "P", "Q", "R", "S", "T", "U", "V", "W", "X", "Y", "Z">>

\* s.toUpperCase(), s.toLowerCase()
toUpperCase(s) ==
    [i \in 1..Len(s) |->
        IF \E k \in 1..26 : LowerLetters[k] = s[i]
        THEN UpperLetters[CHOOSE k \in 1..26 : LowerLetters[k] = s[i]]
        ELSE s[i]]

toLowerCase(s) ==
    [i \in 1..Len(s) |->
        IF \E k \in 1..26 : UpperLetters[k] = s[i]
        THEN LowerLetters[CHOOSE k \in 1..26 : UpperLetters[k] = s[i]]
        ELSE s[i]]

BEGIN_VTODO == <<"B", "E", "G", "I", "N", ":", "V", "T", "O", "D", "O">>
END_VTODO == <<"E", "N", "D", ":", "V", "T", "O", "D", "O">>
DESCRIPTION == <<"D", "E", "S", "C", "R", "I", "P", "T", "I", "O", "N">>
DTSTAMP == <<"D", "T", "S", "T", "A", "M", "P">>
LAST_MODIFIED == <<"L", "A", "S", "T", "-", "M", "O", "D", "I", "F", "I", "E", "D">>
SUMMARY == <<"S", "U", "M", "M", "A", "R", "Y">>
CRLF == <<"\r", "\n">>
LF == <<"\n">>

\* the for loop of unfoldIcsLines over the physical lines
RECURSIVE UnfoldLoop(_, _)
UnfoldLoop(lines, unfolded) ==
    IF lines = <<>> THEN unfolded
    ELSE LET line == lines[1]
         IN  IF (StartsWith(line, <<" ">>) \/ StartsWith(line, <<"\t">>)) /\ Len(unfolded) > 0
             THEN UnfoldLoop(Tail(lines),
                    [unfolded EXCEPT ![Len(unfolded)] = @ \o SliceFrom(line, 1)])
             ELSE UnfoldLoop(Tail(lines), Append(unfolded, line))

\* the split without content.replace(/\r\n/g, "\n")
unfoldIcsLines_SplitLf(content) == UnfoldLoop(Split(content, LF), <<>>)

unfoldIcsLines(content) == UnfoldLoop(Split(ReplaceAll(content, CRLF, LF), LF), <<>>)

\* null when there is no region
NoBounds == [begin |-> -1, end |-> -1]

\* the end marker searched from the top, without `index > begin`
getVtodoBounds_AnyEnd(lines) ==
    LET begin == FindIndex([i \in 1..Len(lines) |-> lines[i] = BEGIN_VTODO])
        end == FindIndex([i \in 1..Len(lines) |-> lines[i] = END_VTODO])
    IN  IF begin < 0 THEN NoBounds
        ELSE IF end < 0 THEN NoBounds
        ELSE [begin |-> begin, end |-> end]

getVtodoBounds(lines) ==
    LET begin == FindIndex([i \in 1..Len(lines) |-> lines[i] = BEGIN_VTODO])
        \* index is i - 1
        end == FindIndex([i \in 1..Len(lines) |-> i - 1 > begin /\ lines[i] = END_VTODO])
    IN  IF begin < 0 THEN NoBounds
        ELSE IF end < 0 THEN NoBounds
        ELSE [begin |-> begin, end |-> end]

\* value.replace(/\\n/gi, "\n"): backslash followed by n or N
UnescapeNewlines(value) ==
    \* two matches never overlap: a match starts wherever the two characters stand
    LET Starts(i) == /\ i >= 1
                     /\ i < Len(value)
                     /\ value[i] = "\\"
                     /\ value[i + 1] \in {"n", "N"}
        marked == [i \in 1..Len(value) |->
                      [c |-> IF Starts(i) THEN "\n" ELSE value[i],
                       keep |-> ~Starts(i - 1)]]
        Kept(m) == m.keep
        kept == SelectSeq(marked, Kept)
    IN  [k \in 1..Len(kept) |-> kept[k].c]

\* the replacements of a chain of s.replace(/pat/g, rep) calls, applied in
\* order; nothing is left to replace in an empty string
RECURSIVE ReplaceEach(_, _)
ReplaceEach(s, replacements) ==
    IF s = <<>> \/ replacements = <<>> THEN s
    ELSE ReplaceEach(ReplaceAll(s, replacements[1].pat, replacements[1].rep),
                     Tail(replacements))

unescapeIcsText(value) ==
    ReplaceEach(UnescapeNewlines(value),
                <<[pat |-> <<"\\", ",">>, rep |-> <<",">>],
                  [pat |-> <<"\\", ";">>, rep |-> <<";">>],
                  [pat |-> <<"\\", "\\">>, rep |-> <<"\\">>]>>)

escapeIcsText(value) ==
    ReplaceEach(value,
                <<[pat |-> <<"\\">>, rep |-> <<"\\", "\\">>],
                  [pat |-> <<"\n">>, rep |-> <<"\\", "n">>],
                  [pat |-> <<",">>, rep |-> <<"\\", ",">>],
                  [pat |-> <<";">>, rep |-> <<"\\", ";">>]>>)

\* left.split(";", 1)[0].toUpperCase() of the text before the first colon;
\* only called on a line whose first colon is at a position > 0
LineKey(line) ==
    LET left == Slice(line, 0, IndexOf(line, <<":">>))
    IN  toUpperCase(Split(left, <<";">>)[1])

HasKey(line) == IndexOf(line, <<":">>) > 0

\* the first loop of parseIcsProperties: the lines collected as inside the region
RECURSIVE InVtodoLoop(_, _, _)
InVtodoLoop(lines, insideVtodo, inVtodo) ==
    IF lines = <<>> THEN inVtodo
    ELSE IF lines[1] = BEGIN_VTODO THEN InVtodoLoop(Tail(lines), TRUE, inVtodo)
    ELSE IF lines[1] = END_VTODO THEN inVtodo
    ELSE IF insideVtodo THEN InVtodoLoop(Tail(lines), TRUE, Append(inVtodo, lines[1]))
    ELSE InVtodoLoop(Tail(lines), insideVtodo, inVtodo)

\* the second loop: props[key] = value, a later line overwriting an earlier one
RECURSIVE PropsLoop(_, _)
PropsLoop(lines, props) ==
    IF lines = <<>> THEN props
    ELSE LET line == lines[1]
             key == LineKey(line)
             value == unescapeIcsText(SliceFrom(line, IndexOf(line, <<":">>) + 1))
         IN  IF ~HasKey(line) THEN PropsLoop(Tail(lines), props)
             ELSE PropsLoop(Tail(lines),
                    [k \in DOMAIN props \cup {key} |-> IF k = key THEN value ELSE props[k]])

\* a Record<string, string> is a function from its keys
EmptyProps == [k \in {} |-> <<>>]

parseIcsProperties(content) ==
    PropsLoop(InVtodoLoop(unfoldIcsLines(content), FALSE, <<>>), EmptyProps)

\* props.KEY ?? ""
PropOrEmpty(props, key) == IF key \in DOMAIN props THEN props[key] ELSE <<>>

\* the replacement made at the last line with the key
upsertProperty_LastMatch(lines, key, value) ==
    LET keyUpper == toUpperCase(key)
        found == {i \in 1..Len(lines) : HasKey(lines[i]) /\ LineKey(lines[i]) = keyUpper}
        newLine == keyUpper \o <<":">> \o value
    IN  IF found # {} THEN [lines EXCEPT ![Max(found)] = newLine]
        ELSE Append(lines, newLine)

upsertProperty(lines, key, value) ==
    LET keyUpper == toUpperCase(key)
        index == FindIndex([i \in 1..Len(lines) |->
                              HasKey(lines[i]) /\ LineKey(lines[i]) = keyUpper])
        newLine == keyUpper \o <<":">> \o value
    IN  IF index >= 0 THEN [lines EXCEPT ![index + 1] = newLine]
        ELSE Append(lines, newLine)

\* String(value), for an integer value >= 0
RECURSIVE ToDigits(_)
ToDigits(value) ==
    LET digit == <<"0", "1", "2", "3", "4", "5", "6", "7", "8", "9">>[(value % 10) + 1]
    IN  IF value < 10 THEN <<digit>> ELSE ToDigits(value \div 10) \o <<digit>>

\* the timestamp with getUTCMonth() taken as the month number
toUtcTimestamp_MonthFromZero(date) ==
    LET pad(value) == IF Len(ToDigits(value)) < 2 THEN <<"0">> \o ToDigits(value)
                      ELSE ToDigits(value)
    IN  ToDigits(date.year) \o pad(date.month) \o pad(date.date) \o <<"T">>
        \o pad(date.hours) \o pad(date.minutes) \o pad(date.seconds) \o <<"Z">>

\* pad is String(value).padStart(2, "0");
\* date: the UTC fields a Date answers with (getUTCMonth counts from 0)
toUtcTimestamp(date) ==
    LET pad(value) == IF Len(ToDigits(value)) < 2 THEN <<"0">> \o ToDigits(value)
                      ELSE ToDigits(value)
    IN  ToDigits(date.year) \o pad(date.month + 1) \o pad(date.date) \o <<"T">>
        \o pad(date.hours) \o pad(date.minutes) \o pad(date.seconds) \o <<"Z">>

parseTaskFromIcsContent(content) ==
    LET props == parseIcsProperties(content)
        descriptionRaw == PropOrEmpty(props, DESCRIPTION)
    IN  [dtStamp |-> PropOrEmpty(props, DTSTAMP),
         descriptionRaw |-> descriptionRaw,
         unteraufgaben |-> parseUnteraufgaben(descriptionRaw),
         properties |-> props]

\* content.includes("\r\n") ? "\r\n" : "\n"
DetectNewline(content) == IF Includes(content, CRLF) THEN CRLF ELSE LF

\* the reassembly without the end marker line
updatedLines_DropEnd(unfoldedLines, vtodoBounds, vtodoLines) ==
    SubSeq(unfoldedLines, 1, vtodoBounds.begin + 1)
    \o vtodoLines
    \o SubSeq(unfoldedLines, vtodoBounds.end + 2, Len(unfoldedLines))

\* [...slice(0, begin + 1), ...vtodoLines, ...slice(end)]
updatedLines(unfoldedLines, vtodoBounds, vtodoLines) ==
    SubSeq(unfoldedLines, 1, vtodoBounds.begin + 1)
    \o vtodoLines
    \o SubSeq(unfoldedLines, vtodoBounds.end + 1, Len(unfoldedLines))

\* the content writeUnteraufgabenToFile hands to writeFile; without a region
\* the code throws and nothing is written
updatedContent(content, unteraufgaben, date) ==
    LET newline == DetectNewline(content)
        unfoldedLines == unfoldIcsLines(content)
        vtodoBounds == getVtodoBounds(unfoldedLines)
        nowUtc == toUtcTimestamp(date)
        vtodoLines == SubSeq(unfoldedLines, vtodoBounds.begin + 2, vtodoBounds.end)
        descriptionText == buildDescriptionValue(unteraufgaben)
        withDescription == upsertProperty(vtodoLines, DESCRIPTION, escapeIcsText(descriptionText))
        withStamp == upsertProperty(withDescription, DTSTAMP, nowUtc)
        withModified == upsertProperty(withStamp, LAST_MODIFIED, nowUtc)
    IN  IF vtodoBounds = NoBounds THEN content
        ELSE Join(updatedLines(unfoldedLines, vtodoBounds, withModified), newline) \o newline

-----------------------------------------------------------------------------
(* The reference data resolver: src/lib/StammDaten.ts, class                 *)
(* StammdatenRepository.  `this` is the repository object: the record of    *)
(* its fields data, cachedMtimeMs and the six index maps.                   *)

\* new Map(): a Map is a function from its keys; Map.set, Map.get
EmptyMap == [k \in {} |-> {}]
MapSet(map, key, value) ==
    [k \in (DOMAIN map) \cup {key} |-> IF k = key THEN value ELSE map[k]]
MapGet(map, key) == IF key \in DOMAIN map THEN {map[key]} ELSE Undefined

\* items.forEach((item) => map.set(keyOf(item), item)), keys[i] being the key
\* of items[i]: a later item replaces an earlier one with the same key
RECURSIVE IndexLoop(_, _, _)
IndexLoop(map, keys, items) ==
    IF items = <<>> THEN map
    ELSE IndexLoop(MapSet(map, Head(keys), Head(items)), Tail(keys), Tail(items))

\* `${key.typId}:${key.bereichId}` with the separator left out
bereichKey_NoSeparator(key) == ToDigits(key.typId) \o ToDigits(key.bereichId)

\* `${key.typId}:${key.bereichId}`, the ids being non-negative integers
bereichKey(key) == ToDigits(key.typId) \o <<":">> \o ToDigits(key.bereichId)

\* typName.trim(), the letter case kept
normalizeTypName_CaseKept(typName) == Trim(typName)

\* typName.trim().toLowerCase()
normalizeTypName(typName) == toLowerCase(Trim(typName))

\* the collections of the dataset, in the order rebuildIndexes reads them
Collections == <<"Adresse", "Person", "Typ", "Haus", "Bereich">>

\* stammdaten[name] is an array: the dataset holds the collection
HasCollection(stammdaten, name) == name \in DOMAIN stammdaten

\* whether rebuildIndexes throws: stammdaten.X.forEach of a collection X the
\* dataset does not hold is a TypeError
rebuildThrows(data) ==
    \E i \in 1..Len(Collections) : ~HasCollection(data.Stammdaten, Collections[i])

\* clears the six maps, then fills them from this.data, collection after
\* collection; the first collection the dataset does not hold throws, and
\* the maps of the collections after it stay cleared
rebuildIndexes(this) ==
    LET stammdaten == this.data.Stammdaten
        \* the forEach over the collection is reached and runs
        Filled(name) ==
            \A i \in 1..Len(Collections) :
                (\E k \in i..Len(Collections) : Collections[k] = name)
                    => HasCollection(stammdaten, Collections[i])
        Ids(items) == [i \in 1..Len(items) |-> items[i].ID]
        typNames == [i \in 1..Len(stammdaten.Typ) |->
                        normalizeTypName(stammdaten.Typ[i].Name)]
        bereichKeys == [i \in 1..Len(stammdaten.Bereich) |->
                           bereichKey([typId |-> stammdaten.Bereich[i]["Typ.ID"],
                                       bereichId |-> stammdaten.Bereich[i].ID])]
    IN  [this EXCEPT
            !.adresseById = IF Filled("Adresse")
                            THEN IndexLoop(EmptyMap, Ids(stammdaten.Adresse), stammdaten.Adresse)
                            ELSE EmptyMap,
            !.personById = IF Filled("Person")
                           THEN IndexLoop(EmptyMap, Ids(stammdaten.Person), stammdaten.Person)
                           ELSE EmptyMap,
            !.typById = IF Filled("Typ")
                        THEN IndexLoop(EmptyMap, Ids(stammdaten.Typ), stammdaten.Typ)
                        ELSE EmptyMap,
            !.typByName = IF Filled("Typ")
                          THEN IndexLoop(EmptyMap, typNames, stammdaten.Typ)
                          ELSE EmptyMap,
            !.hausById = IF Filled("Haus")
                         THEN IndexLoop(EmptyMap, Ids(stammdaten.Haus), stammdaten.Haus)
                         ELSE EmptyMap,
            !.bereichByKey = IF Filled("Bereich")
                             THEN IndexLoop(EmptyMap, bereichKeys, stammdaten.Bereich)
                             ELSE EmptyMap]

\* The content of the source file is the value JSON.parse makes of it,
\* Malformed when JSON.parse throws, Unreadable when readFileSync throws.
Malformed == [SyntaxError |-> TRUE]
Unreadable == [IOError |-> TRUE]

\* the source file is read again only when its time is later than the cached one
needsReload_NewerOnly(this, stat, force) == force \/ stat.mtimeMs > this.cachedMtimeMs

\* the negation of `!force && nextMtimeMs === this.cachedMtimeMs`
needsReload(this, stat, force) == force \/ stat.mtimeMs # this.cachedMtimeMs

\* reloadIfNeeded(force) for a source file that is read and parses: stat is
\* the file's [mtimeMs, content].  When rebuildIndexes throws, this is the
\* repository the exception leaves behind.
reloadIfNeeded(this, stat, force) ==
    IF ~needsReload(this, stat, force) THEN this
    ELSE rebuildIndexes([this EXCEPT !.data = stat.content,
                                     !.cachedMtimeMs = stat.mtimeMs])

\* the exception reloadIfNeeded(force) ends with, "none" when it returns
reloadError(this, stat, force) ==
    IF ~needsReload(this, stat, force) THEN "none"
    ELSE IF stat.content = Unreadable THEN "IOError"
    ELSE IF stat.content = Malformed THEN "SyntaxError"
    ELSE IF rebuildThrows(stat.content) THEN "TypeError"
    ELSE "none"

\* whether reloadIfNeeded(force) throws before it assigns a field: the file
\* is read again and is unreadable or does not parse
reloadThrows(this, stat, force) ==
    reloadError(this, stat, force) \in {"IOError", "SyntaxError"}

\* the fields of a new StammdatenRepository before its constructor's reload
NewRepository ==
    [data |-> Undefined, cachedMtimeMs |-> -1,
     adresseById |-> EmptyMap, personById |-> EmptyMap, typById |-> EmptyMap,
     typByName |-> EmptyMap, hausById |-> EmptyMap, bereichByKey |-> EmptyMap]

\* The lookups below are the methods after their leading reloadIfNeeded().

getBereichByKey(this, key) == MapGet(this.bereichByKey, bereichKey(key))

getBereichByTypNameUndId(this, typName, bereichId) ==
    LET typ == MapGet(this.typByName, normalizeTypName(typName))
    IN  IF typ = Undefined THEN Undefined
        ELSE LET t == CHOOSE x \in typ : TRUE
             IN  getBereichByKey(this, [typId |-> t.ID, bereichId |-> bereichId])

\* s.replace(/[)"']+$/g, "")
StripClosing(s) ==
    LET keep == {i \in 1..Len(s) : s[i] \notin {")", "\"", "'"}}
    IN  IF keep = {} THEN <<>> ELSE SubSeq(s, 1, Max(keep))

Digits == <<"0", "1", "2", "3", "4", "5", "6", "7", "8", "9">>

\* Number(digits) of a string of decimal digits
RECURSIVE ParseDigits(_)
ParseDigits(digits) ==
    IF digits = <<>> THEN 0
    ELSE 10 * ParseDigits(SubSeq(digits, 1, Len(digits) - 1))
         + (CHOOSE d \in 0..9 : Digits[d + 1] = digits[Len(digits)])

\* segment.match(/^(.*)\s+(\d+)$/): the digits are the run of digits that
\* ends the segment, a whitespace character stands before it, and the
\* greedy (.*) is all that precedes that character; "." does not match a
\* line terminator.  Undefined when there is no match.
MatchNameAndDigits(segment) ==
    LET nonDigits == {i \in 1..Len(segment) : ~\E d \in 1..10 : Digits[d] = segment[i]}
        \* the position (1-based) of the character before the final digits
        last == IF nonDigits = {} THEN 0 ELSE Max(nonDigits)
        typName == SubSeq(segment, 1, last - 1)
    IN  IF /\ last >= 1
           /\ last < Len(segment)
           /\ IsWhitespace(segment[last])
           /\ \A i \in 1..Len(typName) : typName[i] \notin {"\n", "\r", LSEP}
        THEN {[typName |-> typName, bereichId |-> SubSeq(segment, last + 1, Len(segment))]}
        ELSE Undefined

\* normalized.split("-").pop().trim() replaced by the first part
LabelSegment_FirstPart(normalized) ==
    IF Includes(normalized, <<"-">>)
    THEN Trim(Split(normalized, <<"-">>)[1])
    ELSE normalized

\* normalized.includes("-") ? normalized.split("-").pop()?.trim() ?? normalized : normalized
LabelSegment(normalized) ==
    IF Includes(normalized, <<"-">>)
    THEN LET parts == Split(normalized, <<"-">>) IN Trim(parts[Len(parts)])
    ELSE normalized

getBereichByBezeichnung(this, bezeichnung) ==
    LET normalized == StripClosing(CollapseWhitespace(Trim(bezeichnung)))
        segment == LabelSegment(normalized)
        match == MatchNameAndDigits(segment)
    IN  IF match = Undefined THEN Undefined
        ELSE LET m == CHOOSE x \in match : TRUE
             IN  getBereichByTypNameUndId(this, m.typName, ParseDigits(m.bereichId))

getHausById(this, hausId) == MapGet(this.hausById, hausId)

\* this.data.Stammdaten.Bereich.filter(...), the dataset holding the collection
getBereicheByHausId(this, hausId) ==
    LET HasHaus(bereich) == bereich["Haus.ID"] = hausId
    IN  SelectSeq(this.data.Stammdaten.Bereich, HasHaus)

\* the tenants taken in the order of the Person collection, where the code
\* maps the area's list of ids
Mieter_InPersonOrder(this, personIds) ==
    LET IsMieter(person) ==
            /\ \E i \in 1..Len(personIds) : personIds[i] = person.ID
            /\ MapGet(this.personById, person.ID) = {person}
    IN  SelectSeq(this.data.Stammdaten.Person, IsMieter)

\* bereich["Person.ID"].map((personId) => this.personById.get(personId))
\*     .filter((person) => Boolean(person))
Mieter(this, personIds) ==
    LET got == [i \in 1..Len(personIds) |-> MapGet(this.personById, personIds[i])]
        IsPerson(person) == person # Undefined
        kept == SelectSeq(got, IsPerson)
    IN  [k \in 1..Len(kept) |-> CHOOSE person \in kept[k] : TRUE]

resolveBereich(this, bereich) ==
    [bereich |-> bereich,
     haus |-> MapGet(this.hausById, bereich["Haus.ID"]),
     typ |-> MapGet(this.typById, bereich["Typ.ID"]),
     mieter |-> Mieter(this, bereich["Person.ID"])]

getBereichMitRelationenByKey(this, key) ==
    LET bereich == getBereichByKey(this, key)
    IN  IF bereich = Undefined THEN Undefined
        ELSE {resolveBereich(this, CHOOSE b \in bereich : TRUE)}

\* getHausMitRelationen collecting the areas before it looks for the house
getHausMitRelationenError_AreasFirst(this, hausId) ==
    IF ~HasCollection(this.data.Stammdaten, "Bereich") THEN "TypeError" ELSE "none"

\* the exception getHausMitRelationen ends with, "none" when it returns:
\* getBereicheByHausId reads the Bereich collection of the dataset
getHausMitRelationenError(this, hausId) ==
    IF getHausById(this, hausId) = Undefined THEN "none"
    ELSE IF ~HasCollection(this.data.Stammdaten, "Bereich") THEN "TypeError"
    ELSE "none"

\* getHausMitRelationen where it returns
getHausMitRelationen(this, hausId) ==
    LET haus == getHausById(this, hausId)
    IN  IF haus = Undefined THEN Undefined
        ELSE LET h == CHOOSE x \in haus : TRUE
                 bereiche == getBereicheByHausId(this, hausId)
             IN  {[haus |-> h,
                   adresse |-> MapGet(this.adresseById, h["Adresse.ID"]),
                   typ |-> MapGet(this.typById, h["Typ.ID"]),
                   bereiche |-> [i \in 1..Len(bereiche) |-> resolveBereich(this, bereiche[i])]]}

-----------------------------------------------------------------------------
(* The directory scan *)

\* the characters of file names and paths in UTF-16 code unit order
CodeUnitOrder == <<".", "/">> \o UpperLetters \o LowerLetters

\* a < b as JavaScript compares strings: by code units, a prefix first
StringLess(a, b) ==
    LET Unit(ch) == CHOOSE k \in 1..Len(CodeUnitOrder) : CodeUnitOrder[k] = ch
        differ == {i \in 1..Min({Len(a), Len(b)}) : a[i] # b[i]}
    IN  IF differ = {} THEN Len(a) < Len(b)
        ELSE Unit(a[Min(differ)]) < Unit(b[Min(differ)])

\* the paths in the order readdir listed them
SortAscending_AsListed(paths) == paths

\* Array.prototype.sort() of strings that differ from each other
SortAscending(paths) ==
    LET Rank(i) == Cardinality({j \in 1..Len(paths) : StringLess(paths[j], paths[i])})
    IN  [k \in 1..Len(paths) |-> paths[CHOOSE i \in 1..Len(paths) : Rank(i) = k - 1]]

\* path.join(directoryPath, entry.name)
PathJoin(directoryPath, name) == directoryPath \o <<"/">> \o name

\* entries.filter(...).map(...).sort() of readAllTasksFromDirectory
icsFilesOf(directoryPath, entries) ==
    LET IsIcsFile(entry) ==
            entry.isFile /\ EndsWith(toLowerCase(entry.name), <<".", "i", "c", "s">>)
        kept == SelectSeq(entries, IsIcsFile)
    IN  SortAscending([i \in 1..Len(kept) |-> PathJoin(directoryPath, kept[i].name)])

\* readTaskFromFile: the task parsed from the file at the path
readTaskFromFile(directoryPath, entries, filePath) ==
    LET entry == CHOOSE e \in {entries[i] : i \in 1..Len(entries)} :
                     PathJoin(directoryPath, e.name) = filePath
        props == parseIcsProperties(entry.content)
    IN  [sourceFile |-> filePath, uid |-> PropOrEmpty(props, <<"U", "I", "D">>)]

-----------------------------------------------------------------------------
(* The PATCH route of one subtask,                                         *)
(* src/app/api/tasks/[uid]/subtasks/[index]/route.ts, up to its call of    *)
(* updateUnteraufgabeInFile.                                               *)

\* process.cwd()
Cwd == <<"/", "a", "p", "p">>

\* a JSON value is a record of its type and of what it is as a boolean and
\* as a string; the body request.json() gives is a record of how it parsed
\* (an object, null, or not at all) and of its fields status and hinweis,
\* Undefined when the object lacks them

\* typeof value === "boolean"
isStatusValue(value) == value.type = "boolean"

\* /^[A-Za-z0-9-]+$/.test(uid)
isValidUid(uid) ==
    /\ uid # <<>>
    /\ \A i \in 1..Len(uid) :
          \/ \E k \in 1..26 : uid[i] \in {LowerLetters[k], UpperLetters[k]}
          \/ \E d \in 1..10 : uid[i] = Digits[d]
          \/ uid[i] = "-"

\* Number(index) of a text that, whitespace around it apart, is empty or a
\* decimal literal of an optional sign, digits and an optional fraction;
\* NaN for a text with any other character.  The number is kept as its
\* sign, its whole part and whether its fraction is zero.
NumberOf(index) ==
    LET text == Trim(index)
        signed == text # <<>> /\ text[1] \in {"+", "-"}
        literal == IF signed THEN Tail(text) ELSE text
        dots == {i \in 1..Len(literal) : literal[i] = "."}
        whole == IF dots = {} THEN literal ELSE SubSeq(literal, 1, Min(dots) - 1)
        fraction == IF dots = {} THEN <<>>
                    ELSE SubSeq(literal, Min(dots) + 1, Len(literal))
        AllDigits(s) == \A i \in 1..Len(s) : \E d \in 1..10 : s[i] = Digits[d]
    IN  IF text = <<>>
        THEN [nan |-> FALSE, negative |-> FALSE, whole |-> 0, fractionZero |-> TRUE]
        ELSE IF AllDigits(whole) /\ AllDigits(fraction) /\ whole \o fraction # <<>>
        THEN [nan |-> FALSE,
              negative |-> signed /\ text[1] = "-",
              whole |-> ParseDigits(whole),
              fractionZero |-> \A i \in 1..Len(fraction) : fraction[i] = "0"]
        ELSE [nan |-> TRUE, negative |-> FALSE, whole |-> 0, fractionZero |-> FALSE]

\* !Number.isInteger(indexNumber) || indexNumber < 0; -0 is not below 0
InvalidIndexNumber(indexNumber) ==
    \/ indexNumber.nan
    \/ ~indexNumber.fractionZero
    \/ indexNumber.negative /\ indexNumber.whole > 0

\* a response without a call of updateUnteraufgabeInFile
Rejected(status) == [status |-> status, update |-> Undefined]

\* PATCH: the response status and the call of updateUnteraufgabeInFile it
\* makes, the one place where it reads and writes a task file.  The status
\* is 200 when that call returns; request.json() throwing and the read of a
\* field of null end in the catch with 500.
PATCH(uid, index, body) ==
    LET indexNumber == NumberOf(index)
        hasStatus == body.status # Undefined
        hasHinweis == body.hinweis # Undefined
        normalizedHinweis ==
            IF hasHinweis
            THEN {normalizeHinweis((CHOOSE v \in body.hinweis : TRUE).string)}
            ELSE Undefined
        filePath == PathJoin(PathJoin(Cwd, <<"d", "a", "t", "a", "/", "t", "a", "s", "k", "s">>),
                             uid \o <<".", "i", "c", "s">>)
    IN  IF ~isValidUid(uid) THEN Rejected(400)
        ELSE IF InvalidIndexNumber(indexNumber) THEN Rejected(400)
        ELSE IF body.json # "object" THEN Rejected(500)
        ELSE IF ~hasStatus /\ ~hasHinweis THEN Rejected(400)
        ELSE IF hasStatus /\ ~isStatusValue(CHOOSE v \in body.status : TRUE) THEN Rejected(400)
        ELSE IF hasHinweis /\ (CHOOSE v \in body.hinweis : TRUE).type # "string"
        THEN Rejected(400)
        ELSE [status |-> 200,
              update |->
                 {[filePath |-> filePath,
                   unteraufgabeIndex |-> indexNumber.whole,
                   patch |-> [status |-> IF hasStatus
                                         THEN {(CHOOSE v \in body.status : TRUE).boolean}
                                         ELSE Undefined,
                              hinweis |-> normalizedHinweis]]}]

-----------------------------------------------------------------------------
(* The task store: one task file, and the calls that update it.  Each    *)
(* action is the code between two awaits: a readFile or a writeFile takes *)
(* effect in one step, and calls interleave at the awaits.                *)

\* The task files a run starts from, as physical lines joined with a newline
\* convention, with or without a final newline: seven files with a VTODO
\* region, and three with none (no begin marker, no end marker, the end
\* marker first).
TaskFiles ==
    LET
        BEGIN_VCALENDAR ==
            <<"B", "E", "G", "I", "N", ":", "V", "C", "A", "L", "E", "N", "D",
              "A", "R">>
        END_VCALENDAR ==
            <<"E", "N", "D", ":", "V", "C", "A", "L", "E", "N", "D", "A", "R">>
        LineUid ==
            <<"U", "I", "D", ":", "t", "1">>
        \* the line UID:t1 folded after the colon
        LineUidHead ==
            <<"U", "I", "D", ":">>
        LineUidFold ==
            <<" ", "t", "1">>
        \* a line with no colon
        LineNote ==
            <<"X", "-", "N", "O", "T", "E">>
        LineSummary ==
            <<"S", "U", "M", "M", "A", "R", "Y", ":", "x">>
        \* a DTSTAMP in lower case with a parameter
        LineStampLower ==
            <<"d", "t", "s", "t", "a", "m", "p", ";", "X", "=", "1", ":", "2",
              "0", "2", "5", "0", "1", "0", "1", "T", "0", "0", "0", "0", "0",
              "0", "Z">>
        \* the spec's example shape: two subtasks, an escaped newline between them
        LineDescExample ==
            <<"D", "E", "S", "C", "R", "I", "P", "T", "I", "O", "N", ":", "*",
              " ", "a", "\\", "n", CHECK, " ", "b">>
        \* the same line folded between the backslash and the n, with a tab
        LineDescFoldHead ==
            <<"D", "E", "S", "C", "R", "I", "P", "T", "I", "O", "N", ":", "*",
              " ", "a", "\\">>
        LineDescFoldTail ==
            <<"\t", "n", CHECK, " ", "b">>
        \* a locked subtask with a hint, then an open one
        LineDescHint ==
            <<"D", "E", "S", "C", "R", "I", "P", "T", "I", "O", "N", ":", ".",
              "*", " ", "a", " ", "#", "#", " ", "h", "\\", "n", "*", " ", "b">>
        LineDescA ==
            <<"D", "E", "S", "C", "R", "I", "P", "T", "I", "O", "N", ":", "*",
              " ", "a">>
        LineDescB ==
            <<"D", "E", "S", "C", "R", "I", "P", "T", "I", "O", "N", ":", CHECK,
              " ", "b">>
        \* a hint that holds an escaped backslash and a fullwidth n
        LineDescFullwidth ==
            <<"D", "E", "S", "C", "R", "I", "P", "T", "I", "O", "N", ":", "*",
              " ", "a", " ", "#", "#", " ", "\\", "\\", FW_N, "z", "\\", "n",
              "*", " ", "b">>
        \* a subtask with an empty title, and a title that ends with the separator token
        LineDescBare ==
            <<"D", "E", "S", "C", "R", "I", "P", "T", "I", "O", "N", ":", "*",
              "\\", "n", "*", " ", "a", " ", "#", "#">>

        MakeFile(lines, newline, trailing) ==
            Join(lines, newline) \o (IF trailing THEN newline ELSE <<>>)
        InCalendar(region) ==
            <<BEGIN_VCALENDAR, BEGIN_VTODO>> \o region \o <<END_VTODO, END_VCALENDAR>>
    IN  {MakeFile(InCalendar(<<LineUid, LineDescExample>>), LF, TRUE),
         MakeFile(InCalendar(<<LineUidHead, LineUidFold, LineDescFoldHead, LineDescFoldTail>>),
                  CRLF, TRUE),
         MakeFile(<<BEGIN_VTODO, LineDescHint, LineNote, LineStampLower, END_VTODO>>, LF, FALSE),
         MakeFile(InCalendar(<<LineSummary>>), LF, TRUE),
         MakeFile(InCalendar(<<LineDescA, LineUid, LineDescB>>), LF, TRUE),
         MakeFile(InCalendar(<<LineDescFullwidth>>), LF, FALSE),
         MakeFile(InCalendar(<<LineDescBare, LineUid>>), CRLF, FALSE),
         MakeFile(<<BEGIN_VCALENDAR, LineDescA, END_VTODO, END_VCALENDAR>>, LF, TRUE),
         MakeFile(<<BEGIN_VCALENDAR, BEGIN_VTODO, LineDescA, END_VCALENDAR>>, LF, TRUE),
         MakeFile(<<END_VTODO, BEGIN_VTODO, LineDescA>>, CRLF, TRUE)}

Proc == {"p1", "p2"}

MaxIndex == 2
MaxClock == 1

\* the index argument, the patch argument
UpdateIndexes == (-1)..MaxIndex

Patches ==
    {[status |-> {TRUE}, hinweis |-> Undefined],
     [status |-> Undefined, hinweis |-> {<<"h">>}]}

\* the list argument of a direct writeUnteraufgabenToFile call
WriteLists ==
    {<<[titel |-> <<"n">>, status |-> TRUE, freigegeben |-> TRUE, hinweis |-> <<>>]>>}

\* new Date() when `seconds` have passed since 2025-12-31T23:59:59Z
DateAt(seconds) ==
    IF seconds = 0
    THEN [year |-> 2025, month |-> 11, date |-> 31, hours |-> 23, minutes |-> 59, seconds |-> 59]
    ELSE [year |-> 2026, month |-> 0, date |-> 1, hours |-> 0, minutes |-> 0,
          seconds |-> seconds - 1]

IdleCall ==
    [op |-> "none", pc |-> "idle", index |-> 0, patch |-> [status |-> Undefined, hinweis |-> Undefined],
     unteraufgaben |-> <<>>, readContent |-> <<>>, readAt |-> 0,
     baseContent |-> <<>>, seconds |-> 0, updatedContent |-> <<>>, wroteAt |-> 0, error |-> "none"]

\* parsed.unteraufgaben.map(...): the patch-input form of the parsed subtasks
toUpdateInput(unteraufgaben) == Tuples(unteraufgaben)

\* unteraufgabeIndex > length, where the code has >=
indexInRange_OffByOne(unteraufgabeIndex, length) ==
    ~(unteraufgabeIndex < 0 \/ unteraufgabeIndex > length)

\* the negation of the range check that throws
indexInRange(unteraufgabeIndex, length) ==
    ~(unteraufgabeIndex < 0 \/ unteraufgabeIndex >= length)

\* the list with the patch applied at a position that holds a subtask
applyPatch(unteraufgaben, unteraufgabeIndex, patch) ==
    LET item == unteraufgaben[unteraufgabeIndex + 1]
        nextHinweis == IF patch.hinweis = Undefined THEN item.hinweis
                       ELSE normalizeHinweis(Default(patch.hinweis, <<>>))
    IN  [unteraufgaben EXCEPT ![unteraufgabeIndex + 1] =
            [item EXCEPT !.status = Default(patch.status, item.status),
                         !.hinweis = nextHinweis]]

\* the list rebuilt from the content the write reads, where the code passes
\* on the list it built before the await
listToWrite_Reparsed(c, content) ==
    LET fresh == toUpdateInput(parseTaskFromIcsContent(content).unteraufgaben)
    IN  IF c.op = "update" /\ c.index < Len(fresh)
        THEN applyPatch(fresh, c.index, c.patch)
        ELSE c.unteraufgaben

\* the list a call writes: the one it built before the await of the write
listToWrite(c, content) == c.unteraufgaben

\* updateUnteraufgabeInFile, from its readFile to the readFile of the write
UpdateRead(p, unteraufgabeIndex, patch) ==
    LET parsed == parseTaskFromIcsContent(file)
        unteraufgaben == toUpdateInput(parsed.unteraufgaben)
        started == [call[p] EXCEPT !.op = "update", !.index = unteraufgabeIndex,
                                   !.patch = patch, !.readContent = file,
                                   !.readAt = writeCount]
    IN  /\ call[p].pc = "idle"
        /\ p = "p2" => call["p1"].pc # "idle"
        /\ call' = [call EXCEPT ![p] =
              IF ~indexInRange(unteraufgabeIndex, Len(unteraufgaben))
              THEN [started EXCEPT !.pc = "failed", !.error = "RangeError"]
              ELSE IF unteraufgabeIndex >= Len(unteraufgaben)
              \* not reached while the range check stands: unteraufgaben[index]
              \* is undefined, and reading its fields throws
              THEN [started EXCEPT !.pc = "failed", !.error = "TypeError"]
              ELSE [started EXCEPT !.pc = "parsed",
                       !.unteraufgaben = applyPatch(unteraufgaben, unteraufgabeIndex, patch)]]
        /\ UNCHANGED <<file, clock, writeCount>>

\* a direct call of writeUnteraufgabenToFile, up to its readFile
WriteCall(p, unteraufgaben) ==
    /\ call[p].pc = "idle"
    /\ p = "p2" => call["p1"].pc # "idle"
    /\ call' = [call EXCEPT ![p] =
          [@ EXCEPT !.op = "write", !.pc = "parsed", !.unteraufgaben = unteraufgaben,
                    !.readAt = writeCount]]
    /\ UNCHANGED <<file, clock, writeCount>>

\* writeUnteraufgabenToFile, from its readFile to its writeFile
WriteRead(p, seconds) ==
    /\ call[p].pc = "parsed"
    /\ seconds >= clock
    /\ clock' = seconds
    /\ call' = [call EXCEPT ![p] =
          IF getVtodoBounds(unfoldIcsLines(file)) = NoBounds
          THEN [@ EXCEPT !.pc = "failed", !.error = "NoVtodo"]
          ELSE [@ EXCEPT !.pc = "writing", !.seconds = seconds, !.baseContent = file,
                   !.updatedContent =
                       updatedContent(file, listToWrite(call[p], file), DateAt(seconds))]]
    /\ UNCHANGED <<file, writeCount>>

\* writeFile takes effect, and the call returns the task parsed from what it wrote
WriteFile(p) ==
    /\ call[p].pc = "writing"
    /\ file' = call[p].updatedContent
    /\ writeCount' = writeCount + 1
    /\ call' = [call EXCEPT ![p] = [@ EXCEPT !.pc = "done", !.wroteAt = writeCount + 1]]
    /\ UNCHANGED clock

StoreIdle ==
    /\ file = <<>>
    /\ call = [p \in Proc |-> IdleCall]
    /\ clock = 0
    /\ writeCount = 0

-----------------------------------------------------------------------------
(* The resolver at work: the source file data/config/StammDaten.json, the   *)
(* repository built from it, and the lookups made on it.                    *)

\* the records of the dataset (src/lib/StammDaten.ts, the *Datensatz interfaces)
AdresseDatensatz(id, ort) == [ID |-> id, Ort |-> ort]
PersonDatensatz(id, name) == [ID |-> id, Name |-> name]
TypDatensatz(id, name) == [ID |-> id, Name |-> name]
HausDatensatz(typId, id, adresseId) ==
    ("Typ.ID" :> typId) @@ ("Adresse.ID" :> adresseId) @@ [ID |-> id]
BereichDatensatz(typId, id, hausId, lage, personIds) ==
    ("Typ.ID" :> typId) @@ ("Haus.ID" :> hausId) @@ ("Person.ID" :> personIds)
        @@ [ID |-> id, Lage |-> lage]
StammdatenDatei(adresse, person, typ, haus, bereich) ==
    [Stammdaten |-> [Adresse |-> adresse, Person |-> person, Typ |-> typ,
                     Haus |-> haus, Bereich |-> bereich]]

\* category names: plain, in capitals with a space behind, with spaces
\* around, with a hyphen, with a run of two spaces inside, blank
TypNames ==
    LET Keller == <<"K", "e", "l", "l", "e", "r">>
        Wohnung == <<"W", "o", "h", "n", "u", "n", "g">>
        Ost == <<"O", "s", "t">>
    IN  [Keller |-> Keller,
         KellerPadded |-> <<"K", "E", "L", "L", "E", "R", " ">>,
         Wohnung |-> Wohnung,
         WohnungPadded |-> <<" ">> \o Wohnung \o <<" ">>,
         Garage |-> <<"G", "a", "r", "a", "g", "e">>,
         Ost |-> Ost,
         KellerOst |-> Keller \o <<"-">> \o Ost,
         HausA |-> <<"H", "a", "u", "s", " ", "A">>,
         HausWideA |-> <<"H", "a", "u", "s", " ", " ", "A">>,
         Blank |-> <<>>]

\* The datasets the source file may hold.
\* Haeuser: two houses, three categories; the area keys 1:13 and 11:3 differ
\*   only in where the separator stands; a tenant id without a person.
\* Namen: category names with a hyphen, with a run of two spaces, a blank one.
\* Doppelt: a composite key, a normalized category name and a person id that
\*   occur twice; a tenant id listed twice; an area of a house that is not there.
\* Leer: no records.
Dataset ==
    LET Haeuser ==
            StammdatenDatei(
                <<AdresseDatensatz(1, <<"X">>), AdresseDatensatz(2, <<"Y">>)>>,
                <<PersonDatensatz(1, <<"P">>), PersonDatensatz(2, <<"Q">>)>>,
                <<TypDatensatz(1, TypNames.Keller), TypDatensatz(2, TypNames.WohnungPadded),
                  TypDatensatz(11, TypNames.Garage)>>,
                <<HausDatensatz(2, 1, 1), HausDatensatz(2, 2, 2)>>,
                <<BereichDatensatz(1, 3, 1, <<"l">>, <<1>>),
                  BereichDatensatz(2, 3, 1, <<"r">>, <<2, 9, 1>>),
                  BereichDatensatz(1, 13, 2, <<"l">>, <<>>),
                  BereichDatensatz(11, 3, 2, <<"r">>, <<9>>)>>)
        Namen ==
            StammdatenDatei(
                <<AdresseDatensatz(1, <<"X">>)>>,
                <<>>,
                <<TypDatensatz(1, TypNames.KellerOst), TypDatensatz(2, TypNames.Ost),
                  TypDatensatz(3, TypNames.HausWideA), TypDatensatz(0, TypNames.Blank)>>,
                <<HausDatensatz(2, 1, 1)>>,
                <<BereichDatensatz(1, 3, 1, <<"l">>, <<>>),
                  BereichDatensatz(2, 3, 1, <<"r">>, <<>>),
                  BereichDatensatz(3, 3, 1, <<"l">>, <<>>),
                  BereichDatensatz(0, 0, 1, <<"r">>, <<>>)>>)
        Doppelt ==
            StammdatenDatei(
                <<>>,
                <<PersonDatensatz(1, <<"P">>), PersonDatensatz(1, <<"R">>)>>,
                <<TypDatensatz(1, TypNames.Keller), TypDatensatz(2, TypNames.KellerPadded)>>,
                <<>>,
                <<BereichDatensatz(1, 3, 1, <<"l">>, <<1, 1>>),
                  BereichDatensatz(1, 3, 1, <<"r">>, <<>>),
                  BereichDatensatz(2, 3, 1, <<"l">>, <<>>)>>)
        Leer == StammdatenDatei(<<>>, <<>>, <<>>, <<>>, <<>>)
    IN  [Haeuser |-> Haeuser, Namen |-> Namen, Doppelt |-> Doppelt, Leer |-> Leer]

StammDatasets == {Dataset.Haeuser, Dataset.Namen, Dataset.Doppelt, Dataset.Leer}

\* the modification times the source file passes through
MaxMtime == 1

\* the arguments of the lookups
StammTypIds == {0, 1, 2, 3, 11}
StammBereichIds == {0, 3, 13}
StammNames ==
    {TypNames.Keller, TypNames.KellerPadded, TypNames.Wohnung, TypNames.KellerOst,
     TypNames.Ost, TypNames.HausA, TypNames.HausWideA, TypNames.Blank}
StammPrefixes == {<<"G", "e", "b", ".", " ", "A">>, <<"A", "-", "B">>}

\* the labels "N n" and "P - N n"
Label(typName, bereichId) == typName \o <<" ">> \o ToDigits(bereichId)
PrefixedLabel(prefix, typName, bereichId) ==
    prefix \o <<" ", "-", " ">> \o Label(typName, bereichId)

\* the labels looked up: "N n", "P - N n", and labels of other shapes
\* (closing punctuation, no number, no name, zeros)
Bezeichnungen ==
    {Label(N, n) : N \in StammNames, n \in StammBereichIds}
        \cup {PrefixedLabel(P, N, n) : P \in StammPrefixes, N \in StammNames,
                                        n \in StammBereichIds}
        \cup {Label(TypNames.Keller, 3) \o <<")">>,
              <<"(">> \o Label(TypNames.Keller, 3) \o <<")", "\"", "'">>,
              Label(TypNames.Keller, 3) \o <<" ", ")">>,
              <<" ">> \o TypNames.Keller \o <<"\t", " ", "0", "3", " ">>,
              TypNames.Keller,
              <<"3">>,
              TypNames.Keller \o <<"3">>}

NoLookup ==
    [op |-> "none", key |-> [typId |-> -1, bereichId |-> -1], typName |-> <<>>, bezeichnung |-> <<>>,
     hausId |-> -1, reloaded |-> FALSE, error |-> "none", result |-> Undefined]

\* the repository after a method's leading reloadIfNeeded(): a source file
\* that is unreadable or does not parse makes the reload throw before the
\* repository is touched, a dataset that lacks a collection makes it throw
\* in rebuildIndexes
Reloaded ==
    IF reloadThrows(repository, sourceFile, FALSE) THEN repository
    ELSE reloadIfNeeded(repository, sourceFile, FALSE)

\* A lookup: the method's leading reloadIfNeeded(), then its answer on the
\* repository as it then is; `thrown` is the exception the method's own code
\* ends with, "none" when it returns.
LookupOrThrow(method, answer, thrown) ==
    /\ repository' = Reloaded
    /\ lookup' = IF reloadError(repository, sourceFile, FALSE) # "none"
                 THEN [method EXCEPT !.reloaded = TRUE,
                                     !.error = reloadError(repository, sourceFile, FALSE)]
                 ELSE IF thrown # "none"
                 THEN [method EXCEPT
                          !.reloaded = sourceFile.mtimeMs # repository.cachedMtimeMs,
                          !.error = thrown]
                 ELSE [method EXCEPT
                          !.reloaded = sourceFile.mtimeMs # repository.cachedMtimeMs,
                          !.result = answer]
    /\ UNCHANGED sourceFile

Lookup(method, answer) == LookupOrThrow(method, answer, "none")

GetBereichByKey(typId, bereichId) ==
    LET key == [typId |-> typId, bereichId |-> bereichId]
    IN  Lookup([NoLookup EXCEPT !.op = "getBereichByKey", !.key = key],
               getBereichByKey(repository', key))

GetBereichByTypNameUndId(typName, bereichId) ==
    Lookup([NoLookup EXCEPT !.op = "getBereichByTypNameUndId", !.typName = typName,
                            !.key = [typId |-> -1, bereichId |-> bereichId]],
           getBereichByTypNameUndId(repository', typName, bereichId))

GetBereichByBezeichnung(bezeichnung) ==
    Lookup([NoLookup EXCEPT !.op = "getBereichByBezeichnung", !.bezeichnung = bezeichnung],
           getBereichByBezeichnung(repository', bezeichnung))

GetHausById(hausId) ==
    Lookup([NoLookup EXCEPT !.op = "getHausById", !.hausId = hausId],
           getHausById(repository', hausId))

GetBereichMitRelationenByKey(typId, bereichId) ==
    LET key == [typId |-> typId, bereichId |-> bereichId]
    IN  Lookup([NoLookup EXCEPT !.op = "getBereichMitRelationenByKey", !.key = key],
               getBereichMitRelationenByKey(repository', key))

GetHausMitRelationen(hausId) ==
    LookupOrThrow([NoLookup EXCEPT !.op = "getHausMitRelationen", !.hausId = hausId],
                  getHausMitRelationen(repository', hausId),
                  getHausMitRelationenError(repository', hausId))

\* the caller has taken the answer
Return ==
    /\ lookup.op # "none"
    /\ lookup' = NoLookup
    /\ UNCHANGED <<sourceFile, repository>>

\* another process rewrites the source file
ModifySource(content) ==
    /\ sourceFile.mtimeMs < MaxMtime
    /\ sourceFile' = [content |-> content, mtimeMs |-> sourceFile.mtimeMs + 1]
    /\ UNCHANGED <<repository, lookup>>

StammIdle ==
    /\ sourceFile = [content |-> StammdatenDatei(<<>>, <<>>, <<>>, <<>>, <<>>), mtimeMs |-> 0]
    /\ repository = reloadIfNeeded(NewRepository, sourceFile, TRUE)
    /\ lookup = NoLookup

-----------------------------------------------------------------------------
(* The specifications.  Each one runs one part of the program; the     *)
(* variables of the other parts stay at rest.                             *)

vars == <<modifierConfig, codecVars, hinweisVars, helperVars, storeVars, stammVars>>

CodecIdle ==
    /\ codecPc = "off"
    /\ unteraufgabenIn = <<>>
    /\ descriptionValue = <<>>
    /\ decoded = <<>>

HinweisIdle ==
    /\ hinweisPc = "off"
    /\ hinweisIn = <<>>
    /\ hinweisOut = <<>>

HelperIdle ==
    /\ helperPc = "off"
    /\ helperIn = <<>>
    /\ helperOut = <<>>

Init ==
    /\ modifierConfig = readModifierConfig(EmptyModifierRoot)
    /\ file \in TaskFiles
    /\ call = [p \in Proc |-> IdleCall]
    /\ clock = 0
    /\ writeCount = 0
    /\ CodecIdle
    /\ HinweisIdle
    /\ HelperIdle
    /\ StammIdle

Next ==
    \/ \E p \in Proc, i \in UpdateIndexes, patch \in Patches :
          UpdateRead(p, i, patch) /\ UNCHANGED <<modifierConfig, codecVars, hinweisVars, helperVars, stammVars>>
    \/ \E p \in Proc, list \in WriteLists :
          WriteCall(p, list) /\ UNCHANGED <<modifierConfig, codecVars, hinweisVars, helperVars, stammVars>>
    \/ \E p \in Proc, seconds \in 0..MaxClock :
          WriteRead(p, seconds) /\ UNCHANGED <<modifierConfig, codecVars, hinweisVars, helperVars, stammVars>>
    \/ \E p \in Proc :
          WriteFile(p) /\ UNCHANGED <<modifierConfig, codecVars, hinweisVars, helperVars, stammVars>>

Spec == Init /\ [][Next]_vars

-----------------------------------------------------------------------------
(* Encoding then decoding a subtask list *)

CodecMaxLen == 2

\* The lists to encode, of 1..CodecMaxLen subtasks: titles as a caller holds
\* them (trimmed, free of the description delimiter), hints as
\* normalizeHinweis leaves them (<<>> is no hint).
CodecLists ==
    LET CodecTitel == {<<>>, <<"a">>, <<"a", " ", "#", "#">>, <<"*", "b">>}
        CodecHinweis == {<<>>, <<"h">>}
        CodecItems == [status : BOOLEAN, freigegeben : BOOLEAN,
                       titel : CodecTitel, hinweis : CodecHinweis]
    IN  UNION {[1..n -> CodecItems] : n \in 1..CodecMaxLen}

CodecInit ==
    /\ modifierConfig = readModifierConfig(EmptyModifierRoot)
    /\ codecPc = "input"
    /\ unteraufgabenIn \in CodecLists
    /\ descriptionValue = <<>>
    /\ decoded = <<>>
    /\ HinweisIdle
    /\ HelperIdle
    /\ StoreIdle
    /\ StammIdle

Encode ==
    /\ codecPc = "input"
    /\ descriptionValue' = buildDescriptionValue(unteraufgabenIn)
    /\ codecPc' = "encoded"
    /\ UNCHANGED <<modifierConfig, unteraufgabenIn, decoded, hinweisVars, helperVars, storeVars, stammVars>>

Decode ==
    /\ codecPc = "encoded"
    /\ decoded' = parseUnteraufgaben(descriptionValue)
    /\ codecPc' = "decoded"
    /\ UNCHANGED <<modifierConfig, unteraufgabenIn, descriptionValue, hinweisVars, helperVars, storeVars, stammVars>>

CodecNext == Encode \/ Decode

SpecCodec == CodecInit /\ [][CodecNext]_vars

\* C1: decoding the encoding of a subtask list yields a list of the same
\* length with the same (done, unlocked, title, hint) tuples in the same order.
C1_RoundTripLaw ==
    codecPc = "decoded" =>
        /\ Len(decoded) = Len(unteraufgabenIn)
        /\ Tuples(decoded) = Tuples(unteraufgabenIn)

-----------------------------------------------------------------------------
(* normalizeHinweis applied to an input string, as the PATCH route applies *)
(* it, and to its own result, as updateUnteraufgabeInFile then does.        *)

HinweisMaxChunks == 4

RECURSIVE Concat(_)
Concat(parts) == IF parts = <<>> THEN <<>> ELSE parts[1] \o Concat(Tail(parts))

\* an input is a concatenation of at most HinweisMaxChunks chunks: spaces,
\* control characters, the configured tokens, fullwidth forms, a long run
HinweisInputs ==
    LET LONG19 == <<"a", "b", "c", "d", "e", "f", "g", "h", "i", "j",
                    "k", "l", "m", "n", "o", "p", "q", "r", "s">>
        HinweisChunks ==
            {<<" ">>, <<".">>, <<"*">>, <<"#">>, <<CHECK>>, <<"\n">>,
             <<DEL>>, <<LSEP>>, <<FW_ASTERISK>>, LONG19}
    IN  {Concat(parts) : parts \in UNION {[1..n -> HinweisChunks] : n \in 0..HinweisMaxChunks}}

\* a Modifier.json with check boxes as the symbols of the unlocked subtasks,
\* "[ ]" and "[x]", and the inputs tried with it: up to HinweisMaxChunks
\* characters of brackets, x, space and line separator
CheckBoxes ==
    [modifier |->
        readModifierConfig([EmptyModifierRoot EXCEPT
                               !.NichtBegonnenFreigegeben = {<<"[", " ", "]">>},
                               !.ErledigtFreigegeben = {<<"[", "x", "]">>}]),
     inputs |-> UNION {[1..n -> {"[", "]", "x", " ", LSEP}] : n \in 0..HinweisMaxChunks}]

HinweisInit ==
    /\ \/ /\ modifierConfig = readModifierConfig(EmptyModifierRoot)
          /\ hinweisIn \in HinweisInputs
       \/ /\ modifierConfig = CheckBoxes.modifier
          /\ hinweisIn \in CheckBoxes.inputs
    /\ hinweisPc = "input"
    /\ hinweisOut = <<>>
    /\ CodecIdle
    /\ HelperIdle
    /\ StoreIdle
    /\ StammIdle

Normalize ==
    /\ hinweisPc = "input"
    /\ hinweisOut' = normalizeHinweis(hinweisIn)
    /\ hinweisPc' = "normalized"
    /\ UNCHANGED <<modifierConfig, hinweisIn, codecVars, helperVars, storeVars, stammVars>>

\* updateUnteraufgabeInFile normalizes the hint the route hands it
NormalizeAgain ==
    /\ hinweisPc = "normalized"
    /\ hinweisOut' = normalizeHinweis(hinweisOut)
    /\ hinweisPc' = "stored"
    /\ UNCHANGED <<modifierConfig, hinweisIn, codecVars, helperVars, storeVars, stammVars>>

HinweisNext == Normalize \/ NormalizeAgain

SpecHinweis == HinweisInit /\ [][HinweisNext]_vars

\* the description delimiter, the hint separator token and the four status symbols
ConfiguredTokens ==
    {modifierConfig.statusSymbole.nichtBegonnen.freigegeben,
     modifierConfig.statusSymbole.nichtBegonnen.gesperrt,
     modifierConfig.statusSymbole.erledigt.freigegeben,
     modifierConfig.statusSymbole.erledigt.gesperrt,
     Trim(modifierConfig.hinweisTrennzeichen),
     modifierConfig.descriptionTrennzeichen} \ {<<>>}

\* every whitespace character of s is a single space between two other characters
SingleSpaced(s) ==
    \A i \in 1..Len(s) :
        IsWhitespace(s[i]) =>
            /\ s[i] = " "
            /\ 1 < i /\ i < Len(s)
            /\ ~IsWhitespace(s[i + 1])

\* no configured token has a space in it
TokensUnspaced == \A t \in ConfiguredTokens : ~Includes(t, <<" ">>)

\* C8: a normalized hint has at most 20 characters, no control character,
\* no leading, trailing or repeated whitespace, and no configured status
\* symbol, hint separator token or description delimiter as a substring.
C8_NormalizedHinweisIsClean ==
    hinweisPc = "normalized" =>
        /\ Len(hinweisOut) <= 20
        /\ \A i \in 1..Len(hinweisOut) : ~IsControl(hinweisOut[i])
        /\ SingleSpaced(hinweisOut)
        /\ \A t \in ConfiguredTokens : ~Includes(hinweisOut, t)

\* C8 where no configured token has a space in it: a normalized hint has at
\* most 20 characters, no control character, no leading, trailing or
\* repeated whitespace, and no configured token as a substring.
C8_NormalizedHinweisIsCleanOfUnspacedTokens ==
    TokensUnspaced => C8_NormalizedHinweisIsClean

\* a hint of more than 20 characters with control characters and status
\* symbols in it has been normalized, and was cut
C8_Witness ==
    /\ hinweisPc = "normalized"
    /\ Len(hinweisIn) > 20
    /\ \E i \in 1..Len(hinweisIn) : IsControl(hinweisIn[i])
    /\ \E t \in ConfiguredTokens : Includes(Nfkc(hinweisIn), t)
    /\ Len(hinweisOut) >= 19

\* C29: normalizeHinweis is idempotent: the hint that was normalized by the
\* PATCH route stays as it is when updateUnteraufgabeInFile normalizes it
\* again.
C29_NormalizeIsIdempotent ==
    [][(hinweisPc = "normalized" /\ hinweisPc' = "stored") => hinweisOut' = hinweisOut]_vars

\* C29 where no configured token has a space in it: the second
\* normalization leaves the hint as the first left it.
C29_NormalizeIsIdempotentOfUnspacedTokens ==
    [][(TokensUnspaced /\ hinweisPc = "normalized" /\ hinweisPc' = "stored")
          => hinweisOut' = hinweisOut]_vars

\* a hint that the first normalization changed and cut has been normalized
\* twice
C29_Witness ==
    /\ hinweisPc = "stored"
    /\ TokensUnspaced
    /\ Len(hinweisIn) > 20
    /\ Len(hinweisOut) = 20
    /\ \E t \in ConfiguredTokens : Includes(hinweisIn, t)

-----------------------------------------------------------------------------
(* The resolver's specification: the repository as constructed from a       *)
(* source file, lookups, and rewrites of the source file.                   *)

StammInit ==
    /\ modifierConfig = readModifierConfig(EmptyModifierRoot)
    /\ sourceFile \in {[content |-> d, mtimeMs |-> 0] : d \in StammDatasets}
    /\ repository = reloadIfNeeded(NewRepository, sourceFile, TRUE)
    /\ lookup = NoLookup
    /\ CodecIdle
    /\ HinweisIdle
    /\ HelperIdle
    /\ StoreIdle

StammNext ==
    \/ \E typId \in StammTypIds, bereichId \in StammBereichIds :
          GetBereichByKey(typId, bereichId)
              /\ UNCHANGED <<modifierConfig, codecVars, hinweisVars, helperVars, storeVars>>
    \/ \E typName \in StammNames, bereichId \in StammBereichIds :
          GetBereichByTypNameUndId(typName, bereichId)
              /\ UNCHANGED <<modifierConfig, codecVars, hinweisVars, helperVars, storeVars>>
    \/ \E bezeichnung \in Bezeichnungen :
          GetBereichByBezeichnung(bezeichnung)
              /\ UNCHANGED <<modifierConfig, codecVars, hinweisVars, helperVars, storeVars>>
    \/ \E content \in StammDatasets \cup {Malformed} :
          ModifySource(content)
              /\ UNCHANGED <<modifierConfig, codecVars, hinweisVars, helperVars, storeVars>>

SpecStamm == StammInit /\ [][StammNext]_vars

-----------------------------------------------------------------------------
(* The resolver under reloads that fail: the source file is rewritten with *)
(* any content and any modification time, and one lookup is made at a time. *)

\* the modification times a rewrite leaves: later, earlier or the same
MaxStamp == 2

\* what the source file may hold (two datasets, a file that cannot be read,
\* one that does not parse, datasets that lack a collection) and the
\* arguments of the lookups
ReloadInputs ==
    LET Without(data, name) ==
            [Stammdaten |->
                [k \in (DOMAIN data.Stammdaten) \ {name} |-> data.Stammdaten[k]]]
    IN  [contents |->
            {Dataset.Haeuser, Dataset.Doppelt, Unreadable, Malformed,
             Without(Dataset.Haeuser, "Person"), Without(Dataset.Haeuser, "Bereich"),
             Without(Dataset.Doppelt, "Adresse")},
         hausIds |-> {0, 1, 2},
         names |-> {TypNames.Keller, TypNames.WohnungPadded, TypNames.Ost},
         bezeichnungen |->
            {Label(TypNames.Keller, 3),
             PrefixedLabel(<<"A", "-", "B">>, TypNames.Wohnung, 3),
             Label(TypNames.Ost, 3),
             TypNames.Keller,
             <<"3">>}]

\* another process rewrites the source file, or sets its time
RewriteSource(content, mtimeMs) ==
    /\ sourceFile' = [content |-> content, mtimeMs |-> mtimeMs]
    /\ sourceFile' # sourceFile
    /\ UNCHANGED <<repository, lookup>>

\* the module's repository is constructed from a source file that loads
ReloadInit ==
    /\ modifierConfig = readModifierConfig(EmptyModifierRoot)
    /\ sourceFile \in {[content |-> d, mtimeMs |-> 0] : d \in {Dataset.Haeuser, Dataset.Doppelt}}
    /\ repository = reloadIfNeeded(NewRepository, sourceFile, TRUE)
    /\ lookup = NoLookup
    /\ CodecIdle
    /\ HinweisIdle
    /\ HelperIdle
    /\ StoreIdle

ReloadNext ==
    \/ \E typId \in StammTypIds, bereichId \in StammBereichIds :
          lookup.op = "none" /\ GetBereichByKey(typId, bereichId)
              /\ UNCHANGED <<modifierConfig, codecVars, hinweisVars, helperVars, storeVars>>
    \/ \E typName \in ReloadInputs.names, bereichId \in StammBereichIds :
          lookup.op = "none" /\ GetBereichByTypNameUndId(typName, bereichId)
              /\ UNCHANGED <<modifierConfig, codecVars, hinweisVars, helperVars, storeVars>>
    \/ \E bezeichnung \in ReloadInputs.bezeichnungen :
          lookup.op = "none" /\ GetBereichByBezeichnung(bezeichnung)
              /\ UNCHANGED <<modifierConfig, codecVars, hinweisVars, helperVars, storeVars>>
    \/ \E hausId \in ReloadInputs.hausIds :
          lookup.op = "none" /\ GetHausById(hausId)
              /\ UNCHANGED <<modifierConfig, codecVars, hinweisVars, helperVars, storeVars>>
    \/ \E typId \in StammTypIds, bereichId \in StammBereichIds :
          lookup.op = "none" /\ GetBereichMitRelationenByKey(typId, bereichId)
              /\ UNCHANGED <<modifierConfig, codecVars, hinweisVars, helperVars, storeVars>>
    \/ \E hausId \in ReloadInputs.hausIds :
          lookup.op = "none" /\ GetHausMitRelationen(hausId)
              /\ UNCHANGED <<modifierConfig, codecVars, hinweisVars, helperVars, storeVars>>
    \/ Return /\ UNCHANGED <<modifierConfig, codecVars, hinweisVars, helperVars, storeVars>>
    \/ \E content \in ReloadInputs.contents, mtimeMs \in 0..MaxStamp :
          lookup.op = "none" /\ RewriteSource(content, mtimeMs)
              /\ UNCHANGED <<modifierConfig, codecVars, hinweisVars, helperVars, storeVars>>

SpecReload == ReloadInit /\ [][ReloadNext]_vars

-----------------------------------------------------------------------------
(* The helpers of Tasks that take an input and return: each is applied to *)
(* inputs from a bounded set.  helperIn.helper names the method.          *)

\* the most cuts in one logical line, the most lines of a content or of a
\* line list, the most entries of a directory, the most
\* field names of a summary, the most characters of a text
MaxCuts == 2
MaxLines == 4
MaxUpsertLines == 3
MaxEntries == 3
MaxFields == 3
MaxTextLen == 3

\* The inputs of the helpers.
\* unfoldIcsLines: contents of one or two logical lines, each cut in up to
\*   MaxCuts places (also before its first and after its last character),
\*   continuation lines prefixed with a space or a tab, joined with LF or
\*   CRLF; the first line may start with whitespace, a line after it starts
\*   with a property name.
\* parseIcsProperties: contents of at most MaxLines lines: the two markers,
\*   the key A in upper case, the same key in lower case with a parameter,
\*   and a line with no colon.
\* upsertProperty: line lists of at most MaxUpsertLines lines with a key and
\*   a value: lines of the key in both cases and with a parameter, of another
\*   key, with no colon, and with the colon first.
\* parseStatusPrefix: segments, and as modifier the Modifier.json files that
\*   set the four status symbols: symbols that are prefixes of each other, of
\*   equal length, equal, and empty.
\* parseSummary: raw summaries, and as summaryModifier the Modifier.json
\*   files with the default delimiter "//" or the delimiter "/" and every
\*   list of at most MaxFields field names, names repeated or not.
\* escapeIcsText: texts of at most MaxTextLen characters over backslash,
\*   newline, comma, semicolon, the letter n and another letter.
\* PATCH: uids (valid ones, empty, with a dot, a slash, a line break, a
\*   letter outside A-Z), index texts (digits, signed, with a fraction, with
\*   whitespace around, blank, empty, not a number) and bodies (objects with
\*   and without the two fields, of the right and of other types, null, and
\*   a body that is not JSON).
\* readAllTasksFromDirectory: what readdir lists of the directory
\*   directoryPath: at most MaxEntries entries with different names, in any
\*   order; a file holds a record with its name as UID.
HelperInputs ==
    LET SeqsUpTo(pool, n) == UNION {[1..k -> pool] : k \in 0..n}
        RECURSIVE FoldLine(_, _, _)
        FoldLine(line, cuts, prefix) ==
            IF cuts = {} THEN <<line>>
            ELSE LET cut == Max(cuts)
                 IN  FoldLine(SubSeq(line, 1, cut), cuts \ {cut}, prefix)
                     \o <<prefix \o SubSeq(line, cut + 1, Len(line))>>
        First == {<<"D", ":", "a", " ", "b">>, <<" ", "x">>, <<"\t">>, <<>>}
        Later == {<<"K", ":", " ", "\t", "c">>, <<"E">>}
        Cuts(line) == {c \in SUBSET (0..Len(line)) : Cardinality(c) <= MaxCuts}
        Folded(logical, cuts, prefix) ==
            Concat([i \in 1..Len(logical) |-> FoldLine(logical[i], cuts[i], prefix)])
        One == UNION {{[logical |-> <<a>>, cuts |-> <<ca>>] : ca \in Cuts(a)} : a \in First}
        Two == UNION {{[logical |-> <<a, b>>, cuts |-> <<ca, cb>>] :
                          ca \in Cuts(a), cb \in Cuts(b)} :
                      a \in First, b \in Later}
        PropsLines == {BEGIN_VTODO, END_VTODO, <<"A", ":", "1">>,
                       <<"a", ";", "X", "=", "2", ":", "2">>, <<"N">>}
        UpsertLines == {<<"A", ":", "1">>, <<"a", ";", "X", "=", "2", ":", "2">>,
                        <<"B", ":", "3">>, <<"A">>, <<":", "A">>}
        Symbols == {<<"*">>, <<"*", "*">>, <<".", "*">>, <<CHECK>>, <<>>}
        Named(name, isFile) ==
            [name |-> name, isFile |-> isFile,
             content |-> Join(<<BEGIN_VTODO, <<"U", "I", "D", ":">> \o name, END_VTODO>>, LF)]
        DirEntries ==
            {Named(<<"b", ".", "i", "c", "s">>, TRUE),
             Named(<<"B", ".", "I", "C", "S">>, TRUE),
             Named(<<"a", ".", "I", "c", "s">>, TRUE),
             Named(<<"a", ".", "t", "x", "t">>, TRUE),
             Named(<<"c", ".", "i", "c", "s">>, FALSE),
             Named(<<"i", "c", "s">>, TRUE),
             Named(<<"b", ".", "i", "c", "s", ".", "b">>, TRUE),
             Named(<<".", "i", "c", "s">>, TRUE)}
        Distinct(entries) ==
            \A i, j \in 1..Len(entries) : i # j => entries[i] # entries[j]
    IN  [unfoldIcsLines |->
            {[helper |-> "unfoldIcsLines",
              logical |-> folded.logical,
              cuts |-> folded.cuts,
              prefix |-> prefix,
              newline |-> newline,
              content |-> Join(Folded(folded.logical, folded.cuts, prefix), newline)] :
                folded \in One \cup Two,
                prefix \in {<<" ">>, <<"\t">>},
                newline \in {LF, CRLF}},
         parseIcsProperties |->
            {[helper |-> "parseIcsProperties", lines |-> lines, content |-> Join(lines, LF)] :
                lines \in SeqsUpTo(PropsLines, MaxLines) \ {<<>>}},
         upsertProperty |->
            {[helper |-> "upsertProperty", lines |-> lines, key |-> key, value |-> value] :
                lines \in SeqsUpTo(UpsertLines, MaxUpsertLines),
                key \in {<<"a">>, <<"B">>, <<"C">>},
                value \in {<<"v">>, <<"x", ":", "y">>}},
         parseStatusPrefix |->
            {[helper |-> "parseStatusPrefix", rawPart |-> rawPart] :
                rawPart \in {<<"*", "*", " ", "a">>, <<"*", "a", " ">>, <<".", "*", " ", "b">>,
                             <<CHECK, "c">>, <<"x">>, <<>>, <<".">>}},
         modifier |->
            {readModifierConfig([EmptyModifierRoot EXCEPT
                                    !.NichtBegonnenFreigegeben = {nf},
                                    !.NichtBegonnenGesperrt = {ng},
                                    !.ErledigtFreigegeben = {ef},
                                    !.ErledigtGesperrt = {eg}]) :
                nf \in Symbols, ng \in Symbols, ef \in Symbols, eg \in Symbols},
         parseSummary |->
            {[helper |-> "parseSummary", summaryRaw |-> summaryRaw] :
                summaryRaw \in {<<"a", "/", "/", "b">>,
                                <<" ", "a", " ", "/", "/", " ", "/", "/", "b", " ", "c", "/", "/">>,
                                <<"a", "/", "b", "/", "/", "/", "c">>,
                                <<"/", "/">>, <<"a">>, <<>>}},
         summaryModifier |->
            {readModifierConfig([EmptyModifierRoot EXCEPT
                                    !.SummaryTrennzeichen = trennzeichen,
                                    !.SummaryInhalt = {inhalt}]) :
                trennzeichen \in {Undefined, {<<"/">>}},
                inhalt \in SeqsUpTo({<<"H">>, <<"O">>, <<"A">>}, MaxFields)},
         escapeIcsText |->
            {[helper |-> "escapeIcsText", value |-> value] :
                value \in SeqsUpTo({"\\", "\n", ",", ";", "n", "a"}, MaxTextLen)},
         PATCH |->
            LET Bool(b) == [type |-> "boolean", boolean |-> b, string |-> <<>>]
                Str(t) == [type |-> "string", boolean |-> FALSE, string |-> t]
                Num == [type |-> "number", boolean |-> FALSE, string |-> <<>>]
                Null == [type |-> "null", boolean |-> FALSE, string |-> <<>>]
                Obj(status, hinweis) ==
                    [json |-> "object", status |-> status, hinweis |-> hinweis]
            IN  {[helper |-> "PATCH", uid |-> uid, index |-> index, body |-> body] :
                    uid \in {<<"t", "1">>, <<"a", "-", "B">>, <<>>, <<".", ".">>,
                             <<"a", "/", "b">>, <<"t", "1", "\n">>, <<"U+00E4">>},
                    index \in {<<"0">>, <<"1", "2">>, <<"-", "1">>, <<"-", "0">>,
                               <<"1", ".", "0">>, <<"1", ".", "5">>, <<" ", "1", " ">>,
                               <<" ">>, <<>>, <<"a">>, <<"1", "a">>},
                    body \in {Obj(Undefined, Undefined),
                              Obj({Bool(TRUE)}, Undefined),
                              Obj(Undefined, {Str(<<"h", " ", " ", "*", "i">>)}),
                              Obj({Bool(FALSE)}, {Str(<<"h">>)}),
                              Obj({Str(<<"x">>)}, Undefined),
                              Obj({Null}, {Str(<<"h">>)}),
                              Obj({Bool(TRUE)}, {Num}),
                              [json |-> "null", status |-> Undefined, hinweis |-> Undefined],
                              [json |-> "malformed", status |-> Undefined,
                               hinweis |-> Undefined]}},
         directoryPath |-> <<"t">>,
         readAllTasksFromDirectory |->
            {[helper |-> "readAllTasksFromDirectory", entries |-> entries] :
                entries \in {e \in SeqsUpTo(DirEntries, MaxEntries) : Distinct(e)}}]

HelperInit ==
    /\ \/ /\ modifierConfig = readModifierConfig(EmptyModifierRoot)
          /\ helperIn \in HelperInputs.unfoldIcsLines \cup HelperInputs.parseIcsProperties
                            \cup HelperInputs.upsertProperty
                            \cup HelperInputs.readAllTasksFromDirectory
                            \cup HelperInputs.escapeIcsText
                            \cup HelperInputs.PATCH
       \/ /\ modifierConfig \in HelperInputs.modifier
          /\ helperIn \in HelperInputs.parseStatusPrefix
       \/ /\ modifierConfig \in HelperInputs.summaryModifier
          /\ helperIn \in HelperInputs.parseSummary
    /\ helperPc = "input"
    /\ helperOut = <<>>
    /\ CodecIdle
    /\ HinweisIdle
    /\ StoreIdle
    /\ StammIdle

\* a helper that returns in one step
Returns(helper, result) ==
    /\ helperPc = "input"
    /\ helperIn.helper = helper
    /\ helperOut' = result
    /\ helperPc' = "returned"
    /\ UNCHANGED <<modifierConfig, helperIn, codecVars, hinweisVars, storeVars, stammVars>>

UnfoldIcsLines == Returns("unfoldIcsLines", unfoldIcsLines(helperIn.content))

ParseIcsProperties == Returns("parseIcsProperties", parseIcsProperties(helperIn.content))

UpsertProperty ==
    Returns("upsertProperty", upsertProperty(helperIn.lines, helperIn.key, helperIn.value))

ParseStatusPrefix == Returns("parseStatusPrefix", parseStatusPrefix(helperIn.rawPart))

ParseSummary == Returns("parseSummary", parseSummary(helperIn.summaryRaw))

Patch == Returns("PATCH", PATCH(helperIn.uid, helperIn.index, helperIn.body))

\* a text on its way into a property value and back: escapeIcsText where
\* the DESCRIPTION is written, unescapeIcsText where the properties are read
EscapeIcsText ==
    /\ helperPc = "input"
    /\ helperIn.helper = "escapeIcsText"
    /\ helperOut' = escapeIcsText(helperIn.value)
    /\ helperPc' = "escaped"
    /\ UNCHANGED <<modifierConfig, helperIn, codecVars, hinweisVars, storeVars, stammVars>>

UnescapeIcsText ==
    /\ helperPc = "escaped"
    /\ helperOut' = unescapeIcsText(helperOut)
    /\ helperPc' = "returned"
    /\ UNCHANGED <<modifierConfig, helperIn, codecVars, hinweisVars, storeVars, stammVars>>

\* readAllTasksFromDirectory up to Promise.all: the directory is listed and
\* one readTaskFromFile is started for each path
ReadDir ==
    /\ helperPc = "input"
    /\ helperIn.helper = "readAllTasksFromDirectory"
    /\ helperOut' =
          LET icsFiles == icsFilesOf(HelperInputs.directoryPath, helperIn.entries)
          IN  [icsFiles |-> icsFiles,
               tasks |-> [i \in 1..Len(icsFiles) |-> Undefined],
               settled |-> <<>>]
    /\ helperPc' = "reading"
    /\ UNCHANGED <<modifierConfig, helperIn, codecVars, hinweisVars, storeVars, stammVars>>

\* one of the started reads completes: Promise.all keeps its value at the
\* position of its promise (settled is the history of the completions)
ReadTaskFromFile(i) ==
    /\ helperPc = "reading"
    /\ i \in 1..Len(helperOut.icsFiles)
    /\ helperOut.tasks[i] = Undefined
    /\ helperOut' =
          [helperOut EXCEPT
              !.tasks[i] = {readTaskFromFile(HelperInputs.directoryPath, helperIn.entries,
                                             helperOut.icsFiles[i])},
              !.settled = Append(@, i)]
    /\ UNCHANGED <<modifierConfig, helperIn, helperPc, codecVars, hinweisVars, storeVars, stammVars>>

\* every read has completed and the list of the tasks is returned
ReturnTasks ==
    /\ helperPc = "reading"
    /\ \A i \in 1..Len(helperOut.icsFiles) : helperOut.tasks[i] # Undefined
    /\ helperPc' = "returned"
    /\ UNCHANGED <<modifierConfig, helperIn, helperOut, codecVars, hinweisVars, storeVars, stammVars>>

HelperNext ==
    \/ UnfoldIcsLines
    \/ ParseIcsProperties
    \/ UpsertProperty
    \/ ParseStatusPrefix
    \/ ParseSummary
    \/ EscapeIcsText
    \/ UnescapeIcsText
    \/ Patch
    \/ ReadDir
    \/ \E i \in 1..MaxEntries : ReadTaskFromFile(i)
    \/ ReturnTasks

SpecHelper == HelperInit /\ [][HelperNext]_vars

-----------------------------------------------------------------------------
(* Claims about the task store *)

\* the subtasks a readTaskFromFile of the current file returns
ReadUnteraufgaben == parseTaskFromIcsContent(file).unteraufgaben

\* the call of p has returned and the file holds what it wrote
JustWrote(p) == call[p].pc = "done" /\ call[p].wroteAt = writeCount

\* C2: updateUnteraufgabeInFile with an index outside [0, number of subtasks)
\* fails with the range error, and the step writes nothing: the file is
\* unchanged, and a failed call takes no further step.
C2_OutOfRangeLeavesFile ==
    [][\A p \in Proc :
          /\ (/\ call[p].pc = "idle"
              /\ call'[p].op = "update"
              /\ ~(0 <= call'[p].index /\ call'[p].index < Len(ReadUnteraufgaben)))
             => /\ call'[p].pc = "failed"
                /\ call'[p].error = "RangeError"
                /\ file' = file
                /\ writeCount' = writeCount
          /\ call[p].pc = "failed" => call'[p] = call[p]]_vars

\* an update of a file that holds subtasks failed on the index one past the
\* last subtask, and the file is as it was
C2_Witness ==
    \E p \in Proc :
        /\ call[p].error = "RangeError"
        /\ call[p].index = Len(ReadUnteraufgaben)
        /\ call[p].index > 0
        /\ file = call[p].readContent
        /\ writeCount = 0

\* the segments of the DESCRIPTION a re-read of the file sees
ReadSegments == Split(parseTaskFromIcsContent(file).descriptionRaw, <<"\n">>)

\* C3: after a successful setUnteraufgabeStatusInFile(path, i, s), re-reading
\* the file yields subtask i with done = s, and DESCRIPTION segment i begins
\* with the symbol of (s, unlocked_i).
C3_StatusIsStored ==
    \A p \in Proc :
        (/\ JustWrote(p)
         /\ call[p].op = "update"
         /\ call[p].patch.status # Undefined
         /\ call[p].patch.hinweis = Undefined)
        => LET i == call[p].index + 1
               s == Default(call[p].patch.status, FALSE)
           IN  /\ i <= Len(ReadUnteraufgaben)
               /\ ReadUnteraufgaben[i].status = s
               /\ i <= Len(ReadSegments)
               /\ StartsWith(ReadSegments[i],
                             toSymbol(s, call[p].unteraufgaben[i].freigegeben))

\* the list the update of call c alone builds from the content it read
AloneList(c) ==
    applyPatch(toUpdateInput(parseTaskFromIcsContent(c.readContent).unteraufgaben),
               c.index, c.patch)

\* what the write of call c alone makes of the content it read, `list` being
\* the list it built
AloneContent(c, list) == updatedContent(c.readContent, list, DateAt(c.seconds))

\* both updates read the file before either wrote, both returned, p wrote
\* first and q last
Raced(p, q) ==
    /\ p # q
    /\ call[p].op = "update" /\ call[q].op = "update"
    /\ call[p].pc = "done" /\ call[q].pc = "done"
    /\ call[p].readAt = 0 /\ call[q].readAt = 0
    /\ call[p].wroteAt < call[q].wroteAt
    /\ call[q].wroteAt = writeCount

\* C4: when two updates of one file both read it before either writes, both
\* complete, and the DESCRIPTION left on disk is the one the later writer
\* alone would have left: the earlier writer's change is not in it.
C4_LaterWriterWins ==
    \A p, q \in Proc :
        Raced(p, q) =>
            /\ call[p].error = "none" /\ call[q].error = "none"
            /\ \A list \in {AloneList(call[q])} :
               \A alone \in {AloneContent(call[q], list)} :
                  parseTaskFromIcsContent(file).descriptionRaw
                    = parseTaskFromIcsContent(alone).descriptionRaw

\* the lost update: p set subtask 0 to done and returned, q then wrote a hint
\* for subtask 1, and the file shows subtask 0 not done
C4_LostUpdate ==
    \E p, q \in Proc :
        /\ Raced(p, q)
        /\ call[p].index = 0 /\ call[p].patch.status = {TRUE}
        /\ call[q].index = 1 /\ call[q].patch.hinweis # Undefined
        /\ Len(ReadUnteraufgaben) = 2
        /\ ~ReadUnteraufgaben[1].status
        /\ ReadUnteraufgaben[2].hinweis = <<"h">>

\* no begin marker, or no end marker after the first begin marker
NoRegion(lines) ==
    ~\E b \in 1..Len(lines) :
        /\ lines[b] = BEGIN_VTODO
        /\ \A k \in 1..(b - 1) : lines[k] # BEGIN_VTODO
        /\ \E e \in (b + 1)..Len(lines) : lines[e] = END_VTODO

\* C5: writeUnteraufgabenToFile on a file with no BEGIN:VTODO line, or with no
\* END:VTODO line after the first BEGIN:VTODO, fails before any mutation: the
\* step leaves the file as it is, and the failed call takes no further step.
C5_NoRegionLeavesFile ==
    [][\A p \in Proc :
          /\ (/\ call[p].pc = "parsed"
              /\ call'[p].pc # "parsed"
              /\ NoRegion(unfoldIcsLines(file)))
             => /\ call'[p].pc = "failed"
                /\ call'[p].error = "NoVtodo"
                /\ file' = file
                /\ writeCount' = writeCount
          /\ call[p].pc = "failed" => call'[p] = call[p]]_vars

\* a write failed on a file whose end marker comes before its begin marker
C5_Witness ==
    \E p \in Proc :
        /\ call[p].error = "NoVtodo"
        /\ writeCount = 0
        /\ Includes(file, BEGIN_VTODO) /\ Includes(file, END_VTODO)

\* the lines of a region that a write must keep: all but those whose key is
\* DESCRIPTION, DTSTAMP or LAST-MODIFIED
KeptLines(lines) ==
    LET Kept(line) == ~(HasKey(line) /\ LineKey(line) \in {DESCRIPTION, DTSTAMP, LAST_MODIFIED})
    IN  SelectSeq(lines, Kept)

\* the logical lines of `after` keep those of `before`: the same lines up to
\* the begin marker, the same lines from the end marker on, and in between
\* the same lines of other keys in the same order
FramePreserved(before, after) ==
    LET old == unfoldIcsLines(before)
        new == unfoldIcsLines(after)
        ob == getVtodoBounds(old)
        nb == getVtodoBounds(new)
        tail == Len(old) - ob.end
    IN  /\ nb # NoBounds
        /\ nb.begin = ob.begin
        /\ SubSeq(new, 1, nb.begin + 1) = SubSeq(old, 1, ob.begin + 1)
        /\ nb.end + tail <= Len(new)
        /\ SubSeq(new, nb.end + 1, nb.end + tail) = SubSeq(old, ob.end + 1, Len(old))
        /\ KeptLines(SubSeq(new, nb.begin + 2, nb.end))
             = KeptLines(SubSeq(old, ob.begin + 2, ob.end))

\* C6: a successful write preserves all other file content: the logical lines
\* before the begin marker, from the end marker onward, and the lines of the
\* region with a key other than DESCRIPTION, DTSTAMP and LAST-MODIFIED are in
\* the written file as in the content the write read, in the same order.
C6_WritePreservesFrame ==
    \A p \in Proc : JustWrote(p) => FramePreserved(call[p].baseContent, file)

\* a write to a file with folded lines, a line before the begin marker and a
\* UID line in the region has returned
C6_Witness ==
    \E p \in Proc :
        /\ JustWrote(p)
        /\ Includes(call[p].baseContent, <<"\r", "\n", " ">>)
        /\ getVtodoBounds(unfoldIcsLines(file)).begin = 1
        /\ \E k \in 1..Len(unfoldIcsLines(file)) : unfoldIcsLines(file)[k] = <<"U", "I", "D", ":", "t", "1">>
        /\ file # call[p].baseContent

\* C7: the written content is joined with the newline convention of the
\* content read (CRLF if it holds one, LF otherwise) and ends with exactly one
\* newline, also when the file read ended with a newline already.
C7_SingleTrailingNewline ==
    \A p \in Proc :
        JustWrote(p) =>
            LET newline == IF Includes(call[p].baseContent, CRLF) THEN CRLF ELSE LF
            IN  /\ EndsWith(file, newline)
                /\ ~EndsWith(file, newline \o newline)
                /\ newline = LF => ~Includes(file, CRLF)
                /\ newline = CRLF =>
                      \A k \in 1..Len(file) : file[k] = "\n" => (k > 1 /\ file[k - 1] = "\r")

-----------------------------------------------------------------------------
(* Claims about the reference data resolver, checked under SpecStamm.       *)

\* the positions in the loaded dataset of the areas with a composite key
BereicheWithKey(typId, bereichId) ==
    LET bereiche == repository.data.Stammdaten.Bereich
    IN  {i \in 1..Len(bereiche) :
            bereiche[i]["Typ.ID"] = typId /\ bereiche[i].ID = bereichId}

\* what getBereichByKey may return for a composite key: an area of the loaded
\* dataset with that key, and absent when the dataset has none
ExactForKey(result, typId, bereichId) ==
    LET bereiche == repository.data.Stammdaten.Bereich
    IN  IF BereicheWithKey(typId, bereichId) = {}
        THEN result = Undefined
        ELSE \E i \in BereicheWithKey(typId, bereichId) : result = {bereiche[i]}

\* C9: once the indexes are built from the loaded dataset, getBereichByKey
\* returns for every area of the dataset an area record with exactly that
\* area's (Typ.ID, ID), returns for every composite key an area of the
\* dataset with that key, and returns absent for every key the dataset does
\* not hold; so does every getBereichByKey call that was made.
C9_KeyLookupIsExact ==
    LET bereiche == repository.data.Stammdaten.Bereich
    IN  /\ \A i \in 1..Len(bereiche) :
              ExactForKey(getBereichByKey(repository,
                                          [typId |-> bereiche[i]["Typ.ID"],
                                           bereichId |-> bereiche[i].ID]),
                          bereiche[i]["Typ.ID"], bereiche[i].ID)
        /\ \A typId \in StammTypIds, bereichId \in StammBereichIds :
              ExactForKey(getBereichByKey(repository,
                                          [typId |-> typId, bereichId |-> bereichId]),
                          typId, bereichId)
        /\ lookup.op = "getBereichByKey" /\ lookup.error = "none"
              => ExactForKey(lookup.result, lookup.key.typId, lookup.key.bereichId)

\* a getBereichByKey call after a rewrite of the source file found the area
\* 1:13 of a dataset that also holds the area 11:3
C9_Witness ==
    /\ lookup.op = "getBereichByKey"
    /\ lookup.reloaded
    /\ lookup.key = [typId |-> 1, bereichId |-> 13]
    /\ lookup.result # Undefined
    /\ BereicheWithKey(11, 3) # {}

\* whether a made getBereichByBezeichnung call agrees with
\* getBereichByTypNameUndId for each of the given category names N: its
\* label being "N n" or "P - N n", it returned what
\* getBereichByTypNameUndId(N, n) returns
LabelAgrees(typNames) ==
    lookup.op = "getBereichByBezeichnung" /\ lookup.error = "none"
        => \A N \in typNames, n \in StammBereichIds :
              (\/ lookup.bezeichnung = Label(N, n)
               \/ \E P \in StammPrefixes : lookup.bezeichnung = PrefixedLabel(P, N, n))
                  => lookup.result = getBereichByTypNameUndId(repository, N, n)

\* a category name without a hyphen, not blank, whose inner whitespace is
\* single spaces
PlainName(typName) ==
    /\ ~Includes(typName, <<"-">>)
    /\ Trim(typName) # <<>>
    /\ CollapseWhitespace(Trim(typName)) = Trim(typName)

\* C10 as stated: for every category name N and every n,
\* getBereichByBezeichnung("N n") and getBereichByBezeichnung("P - N n")
\* return what getBereichByTypNameUndId(N, n) returns.
C10_LabelMatchesNameAndId == LabelAgrees(StammNames)

\* C10, amended: for every category name N that has no hyphen, is not blank
\* and has only single spaces inside, and every n,
\* getBereichByBezeichnung("N n") and getBereichByBezeichnung("P - N n"),
\* whatever the prefix P, return what getBereichByTypNameUndId(N, n) returns.
C10_PlainLabelMatchesNameAndId == LabelAgrees({N \in StammNames : PlainName(N)})

\* a label with a prefix that itself holds a hyphen resolved to an area
C10_Witness ==
    /\ lookup.op = "getBereichByBezeichnung"
    /\ lookup.bezeichnung = PrefixedLabel(<<"A", "-", "B">>, TypNames.KellerPadded, 3)
    /\ lookup.result # Undefined
    /\ lookup.result = getBereichByTypNameUndId(repository, TypNames.KellerPadded, 3)


-----------------------------------------------------------------------------
(* Claims about reloads and relations, checked under SpecReload.            *)

\* the dataset holds every collection, and the six indexes are those a
\* rebuild makes of it
OneSnapshot(this) ==
    /\ ~rebuildThrows(this.data)
    /\ this = rebuildIndexes(this)

\* C11: after any reload attempt, whether it succeeds or fails partway (an
\* unreadable file, invalid JSON, a dataset that lacks a collection), the
\* dataset and the six indexes that the next lookups answer from all derive
\* from one complete snapshot: no cleared or partly filled index is left.
C11_RebuildIsAllOrNothing == OneSnapshot(repository)

\* what the method of a made lookup returns on a repository
AnswerOf(this, made) ==
    IF made.op = "getBereichByKey" THEN getBereichByKey(this, made.key)
    ELSE IF made.op = "getBereichByTypNameUndId"
    THEN getBereichByTypNameUndId(this, made.typName, made.key.bereichId)
    ELSE IF made.op = "getBereichByBezeichnung"
    THEN getBereichByBezeichnung(this, made.bezeichnung)
    ELSE IF made.op = "getHausById" THEN getHausById(this, made.hausId)
    ELSE IF made.op = "getBereichMitRelationenByKey"
    THEN getBereichMitRelationenByKey(this, made.key)
    ELSE getHausMitRelationen(this, made.hausId)

\* C12: a lookup that starts while the source file's modification time
\* differs from the cached one reads the file again, and what it returns is
\* computed from the file's current content; when the times are equal the
\* repository is left as it is and the result comes from it.  A lookup that
\* returns leaves the cached time equal to the file's: it never answers from
\* a snapshot of another time than the file's current one.
C12_LookupIsFresh ==
    [][(lookup.op = "none" /\ lookup'.op # "none") =>
          LET stale == sourceFile.mtimeMs # repository.cachedMtimeMs
          IN  /\ lookup'.reloaded = stale
              /\ ~stale =>
                    /\ repository' = repository
                    /\ lookup'.error = "none"
                          => lookup'.result = AnswerOf(repository, lookup')
              /\ (stale /\ lookup'.error = "none") =>
                    /\ repository'.data = sourceFile.content
                    /\ lookup'.result
                         = AnswerOf(reloadIfNeeded(NewRepository, sourceFile, TRUE), lookup')
              /\ lookup'.error = "none"
                    => repository'.cachedMtimeMs = sourceFile'.mtimeMs
              /\ lookup'.error # "none" => lookup'.result = Undefined]_vars

\* a lookup found house 1 after reading the first dataset again at time 0:
\* the file's time had moved on and was set back
C12_Witness ==
    /\ lookup.op = "getHausById"
    /\ lookup.hausId = 1
    /\ lookup.reloaded
    /\ lookup.result # Undefined
    /\ sourceFile = [content |-> Dataset.Haeuser, mtimeMs |-> 0]

\* the records of a collection of a dataset, none when it lacks the collection
Records(data, name) ==
    IF HasCollection(data.Stammdaten, name)
    THEN {data.Stammdaten[name][i] : i \in 1..Len(data.Stammdaten[name])}
    ELSE {}

KnownHaus(data, hausId) == \E haus \in Records(data, "Haus") : haus.ID = hausId

KnownKey(data, key) ==
    \E bereich \in Records(data, "Bereich") :
        bereich["Typ.ID"] = key.typId /\ bereich.ID = key.bereichId

KnownName(data, typName) ==
    \E typ \in Records(data, "Typ") :
        toLowerCase(Trim(typ.Name)) = toLowerCase(Trim(typName))

\* the made lookup asked for something the dataset does not hold: a house
\* id, a composite key, a category name, or a label without a number, without
\* a name or with the name of no category
AsksUnknown(data, made) ==
    \/ made.op \in {"getHausById", "getHausMitRelationen"} /\ ~KnownHaus(data, made.hausId)
    \/ made.op \in {"getBereichByKey", "getBereichMitRelationenByKey"}
          /\ ~KnownKey(data, made.key)
    \/ made.op = "getBereichByTypNameUndId" /\ ~KnownName(data, made.typName)
    \/ /\ made.op = "getBereichByBezeichnung"
       /\ \/ made.bezeichnung \in {TypNames.Keller, <<"3">>}
          \/ \E N \in ReloadInputs.names \cup {TypNames.Wohnung}, P \in StammPrefixes :
                /\ made.bezeichnung \in {Label(N, 3), PrefixedLabel(P, N, 3)}
                /\ ~KnownName(data, N)

\* C13: with a loaded dataset, a lookup for an unknown house id, composite
\* key or category name, or for a label that does not resolve, returns absent
\* and does not throw, whichever of the six methods is called.
C13_UnknownIsAbsent ==
    (lookup.op # "none" /\ lookup.error \notin {"IOError", "SyntaxError"}
        /\ ~(lookup.reloaded /\ lookup.error = "TypeError")
        /\ AsksUnknown(repository.data, lookup))
    => (lookup.error = "none" /\ lookup.result = Undefined)

\* getHausMitRelationen of a house id that no house has returned absent on a
\* dataset that was just read again
C13_Witness ==
    /\ lookup.op = "getHausMitRelationen"
    /\ lookup.hausId = 0
    /\ lookup.reloaded
    /\ lookup.error = "none"
    /\ lookup.result = Undefined
    /\ repository.data = Dataset.Haeuser

\* the tenants are the persons of the ids of the area's list that the dataset
\* has a person for, in the order of the list
TenantsOf(data, bereich, mieter) ==
    LET personIds == bereich["Person.ID"]
        HasPerson(personId) == \E person \in Records(data, "Person") : person.ID = personId
        present == SelectSeq(personIds, HasPerson)
    IN  /\ Len(mieter) = Len(present)
        /\ \A k \in 1..Len(present) :
              /\ mieter[k] \in Records(data, "Person")
              /\ mieter[k].ID = present[k]

\* the resolved areas a made lookup returned
ResolvedAreas ==
    IF lookup.result = Undefined THEN {}
    ELSE IF lookup.op = "getBereichMitRelationenByKey" THEN lookup.result
    ELSE IF lookup.op = "getHausMitRelationen"
    THEN LET found == CHOOSE x \in lookup.result : TRUE
         IN  {found.bereiche[i] : i \in 1..Len(found.bereiche)}
    ELSE {}

\* C14: resolveBereich returns as tenants exactly the Person records whose
\* ids are in the area's tenant-id list and in the dataset, in the order of
\* the list; an id without a Person record adds no entry and no error.
C14_TenantsInListOrder ==
    \A resolved \in ResolvedAreas :
        TenantsOf(repository.data, resolved.bereich, resolved.mieter)

\* the area 2:3 with the tenant ids 2, 9, 1 was resolved to the persons 2 and 1
C14_Witness ==
    /\ lookup.op = "getBereichMitRelationenByKey"
    /\ lookup.key = [typId |-> 2, bereichId |-> 3]
    /\ \E resolved \in lookup.result :
          /\ resolved.bereich["Person.ID"] = <<2, 9, 1>>
          /\ Len(resolved.mieter) = 2
          /\ resolved.mieter[1].ID = 2
          /\ resolved.mieter[2].ID = 1

\* two names that differ only in letter case or in leading and trailing
\* whitespace
SameTypName(a, b) == toLowerCase(Trim(a)) = toLowerCase(Trim(b))

\* the category records of the loaded dataset whose name the asked name is a
\* variant of
NamedTypes(typName) ==
    {typ \in Records(repository.data, "Typ") : SameTypName(typ.Name, typName)}

\* C23: a lookup by category name and area id answers for a variant of a
\* category name (other letter case, whitespace around it) what it answers
\* for the name as the dataset spells it, and answers absent for a name that
\* is the variant of no category's name.
C23_NameVariantsResolveAlike ==
    (lookup.op = "getBereichByTypNameUndId" /\ lookup.error = "none")
    => /\ \A typ \in NamedTypes(lookup.typName) :
             lookup.result =
                 getBereichByTypNameUndId(repository, typ.Name, lookup.key.bereichId)
       /\ NamedTypes(lookup.typName) = {} => lookup.result = Undefined

\* "Keller" found an area in the dataset that has the categories "Keller"
\* and "KELLER "
C23_Witness ==
    /\ lookup.op = "getBereichByTypNameUndId"
    /\ lookup.typName = TypNames.Keller
    /\ lookup.error = "none"
    /\ lookup.result # Undefined
    /\ repository.data = Dataset.Doppelt

\* what an id refers to in a collection of the dataset: nothing when no
\* record has the id, else a record that has it
RefersTo(data, name, id, got) ==
    LET having == {record \in Records(data, name) : record.ID = id}
    IN  IF having = {} THEN got = Undefined
        ELSE got # Undefined /\ got \subseteq having

\* the areas of a house in the order of the dataset, each with its house,
\* its category and its tenants
AreasOfHaus(data, hausId, bereiche) ==
    LET OfHaus(bereich) == bereich["Haus.ID"] = hausId
        listed == IF HasCollection(data.Stammdaten, "Bereich")
                  THEN SelectSeq(data.Stammdaten.Bereich, OfHaus)
                  ELSE <<>>
    IN  /\ Len(bereiche) = Len(listed)
        /\ \A i \in 1..Len(listed) :
              /\ bereiche[i].bereich = listed[i]
              /\ RefersTo(data, "Haus", listed[i]["Haus.ID"], bereiche[i].haus)
              /\ RefersTo(data, "Typ", listed[i]["Typ.ID"], bereiche[i].typ)
              /\ TenantsOf(data, listed[i], bereiche[i].mieter)

\* C24: getHausMitRelationen(id) returns absent when no house of the dataset
\* has the id; otherwise the house, the address and the category its ids
\* refer to (absent when there is none), and exactly the areas whose Haus.ID
\* is id, in the order of the dataset, each resolved.
C24_HouseWithRelations ==
    (lookup.op = "getHausMitRelationen" /\ lookup.error = "none")
    => IF ~KnownHaus(repository.data, lookup.hausId)
       THEN lookup.result = Undefined
       ELSE /\ lookup.result # Undefined
            /\ \A found \in lookup.result :
                  /\ found.haus \in Records(repository.data, "Haus")
                  /\ found.haus.ID = lookup.hausId
                  /\ RefersTo(repository.data, "Adresse", found.haus["Adresse.ID"],
                              found.adresse)
                  /\ RefersTo(repository.data, "Typ", found.haus["Typ.ID"], found.typ)
                  /\ AreasOfHaus(repository.data, lookup.hausId, found.bereiche)

-----------------------------------------------------------------------------
(* Claims about what a write leaves in the file, checked under Spec.       *)

\* YYYYMMDDThhmmssZ: 8 digits, T, 6 digits, Z
CompactUtcShape(text) ==
    /\ Len(text) = 16
    /\ \A i \in (1..8) \cup (10..15) : text[i] \in {"0", "1", "2", "3", "4", "5", "6", "7", "8", "9"}
    /\ text[9] = "T"
    /\ text[16] = "Z"

\* the instant `seconds` after 2025-12-31T23:59:59Z, written out
InstantText(seconds) ==
    IF seconds = 0
    THEN <<"2", "0", "2", "5", "1", "2", "3", "1", "T", "2", "3", "5", "9", "5", "9", "Z">>
    ELSE <<"2", "0", "2", "6", "0", "1", "0", "1", "T", "0", "0", "0", "0", "0">>
         \o <<<<"0", "1", "2", "3", "4", "5", "6", "7", "8", "9">>[seconds]>> \o <<"Z">>

\* the lines strictly between the markers of the region of a content
RegionLines(content) ==
    LET lines == unfoldIcsLines(content)
        bounds == getVtodoBounds(lines)
    IN  IF bounds = NoBounds THEN <<>>
        ELSE SubSeq(lines, bounds.begin + 2, bounds.end)

-----------------------------------------------------------------------------
(* Claims about the helpers, checked under SpecHelper.                     *)

\* the helper has returned from its input
Returned(helper) == helperPc = "returned" /\ helperIn.helper = helper

\* C16: unfolding is the inverse of folding: for logical lines split into
\* physical lines whose continuation lines are prefixed with exactly one
\* space or tab, unfoldIcsLines gives back exactly the logical lines, under
\* LF and under CRLF line endings.
C16_UnfoldInvertsFold ==
    Returned("unfoldIcsLines") => helperOut = helperIn.logical

\* two logical lines were folded into five physical lines with tabs and
\* CRLF, a continuation holding a space of the line itself, and came back
C16_Witness ==
    /\ Returned("unfoldIcsLines")
    /\ helperIn.logical = <<<<"D", ":", "a", " ", "b">>, <<"K", ":", " ", "\t", "c">>>>
    /\ helperIn.cuts = <<{3}, {2, 3}>>
    /\ helperIn.prefix = <<"\t">>
    /\ helperIn.newline = CRLF
    /\ Len(Split(helperIn.content, CRLF)) = 5
    /\ helperOut = helperIn.logical

\* the names of the regular files of a listing that end in ".ics", compared
\* without regard to case
IcsNames(entries) ==
    {entries[i].name : i \in {k \in 1..Len(entries) :
        /\ entries[k].isFile
        /\ Len(entries[k].name) >= 4
        /\ toLowerCase(SubSeq(entries[k].name, Len(entries[k].name) - 3, Len(entries[k].name)))
             = <<".", "i", "c", "s">>}}

\* C17: readAllTasksFromDirectory returns exactly one task for each regular
\* file of the directory whose name ends in ".ics" compared without regard to
\* case, none for any other entry, ordered by file name ascending, in
\* whatever order the reads of the files complete.
C17_OneTaskPerIcsFileSorted ==
    Returned("readAllTasksFromDirectory") =>
        LET tasks == [i \in 1..Len(helperOut.tasks) |-> CHOOSE t \in helperOut.tasks[i] : TRUE]
            names == IcsNames(helperIn.entries)
        IN  /\ Len(tasks) = Cardinality(names)
            /\ {tasks[i].uid : i \in 1..Len(tasks)} = names
            /\ \A i \in 1..Len(tasks) :
                  tasks[i].sourceFile = HelperInputs.directoryPath \o <<"/">> \o tasks[i].uid
            /\ \A i, j \in 1..Len(tasks) :
                  i < j => StringLess(tasks[i].uid, tasks[j].uid)

\* three task files listed as b.ics, a.Ics, B.ICS were read, the last path
\* first and the first path last, and the tasks came back as B.ICS, a.Ics, b.ics
C17_Witness ==
    /\ Returned("readAllTasksFromDirectory")
    /\ Len(helperIn.entries) = 3
    /\ helperIn.entries[1].name = <<"b", ".", "i", "c", "s">>
    /\ helperIn.entries[2].name = <<"a", ".", "I", "c", "s">>
    /\ helperIn.entries[3].name = <<"B", ".", "I", "C", "S">>
    /\ helperOut.settled = <<3, 2, 1>>
    /\ helperOut.tasks[1] = {[sourceFile |-> <<"t", "/", "B", ".", "I", "C", "S">>,
                              uid |-> <<"B", ".", "I", "C", "S">>]}
    /\ helperOut.tasks[3] = {[sourceFile |-> <<"t", "/", "b", ".", "i", "c", "s">>,
                              uid |-> <<"b", ".", "i", "c", "s">>]}

\* the four configured symbols with their (done, unlocked) pairs
ConfiguredSymbols ==
    {[symbol |-> modifierConfig.statusSymbole.nichtBegonnen.freigegeben,
      status |-> FALSE, freigegeben |-> TRUE],
     [symbol |-> modifierConfig.statusSymbole.nichtBegonnen.gesperrt,
      status |-> FALSE, freigegeben |-> FALSE],
     [symbol |-> modifierConfig.statusSymbole.erledigt.freigegeben,
      status |-> TRUE, freigegeben |-> TRUE],
     [symbol |-> modifierConfig.statusSymbole.erledigt.gesperrt,
      status |-> TRUE, freigegeben |-> FALSE]}

\* C18: for every configuration of the four status symbols, a segment that
\* begins with the symbol S and with no configured symbol longer than S is
\* decoded with a (done, unlocked) pair configured for S, the symbol S and
\* the rest of the segment trimmed as the content.
C18_LongestSymbolFirst ==
    Returned("parseStatusPrefix") =>
        \A S \in {c.symbol : c \in ConfiguredSymbols} :
            (/\ StartsWith(helperIn.rawPart, S)
             /\ \A c \in ConfiguredSymbols :
                   Len(c.symbol) > Len(S) => ~StartsWith(helperIn.rawPart, c.symbol))
            => /\ helperOut.symbol = S
               /\ [symbol |-> S, status |-> helperOut.status,
                   freigegeben |-> helperOut.freigegeben] \in ConfiguredSymbols
               /\ helperOut.inhalt
                    = Trim(SubSeq(helperIn.rawPart, Len(S) + 1, Len(helperIn.rawPart)))

\* with "*" for locked and "**" for unlocked open subtasks, the segment
\* "** a" was decoded as open and unlocked with the content "a"
C18_Witness ==
    /\ Returned("parseStatusPrefix")
    /\ modifierConfig.statusSymbole.nichtBegonnen.gesperrt = <<"*">>
    /\ modifierConfig.statusSymbole.nichtBegonnen.freigegeben = <<"*", "*">>
    /\ modifierConfig.statusSymbole.erledigt.freigegeben = <<CHECK>>
    /\ modifierConfig.statusSymbole.erledigt.gesperrt = <<".", "*">>
    /\ helperIn.rawPart = <<"*", "*", " ", "a">>
    /\ helperOut = [symbol |-> <<"*", "*">>, status |-> FALSE, freigegeben |-> TRUE,
                    inhalt |-> <<"a">>]

\* the lines strictly between the first begin marker and the first end
\* marker after it, none when there is no such pair
BoundedRegion(lines) ==
    LET begins == {b \in 1..Len(lines) : lines[b] = BEGIN_VTODO}
        ends == {e \in 1..Len(lines) : e > Min(begins) /\ lines[e] = END_VTODO}
    IN  IF begins = {} THEN <<>>
        ELSE IF ends = {} THEN <<>>
        ELSE SubSeq(lines, Min(begins) + 1, Min(ends) - 1)

\* the text of a line before its first colon, cut at its first semicolon,
\* in upper case; <<>> for a line with no colon
KeyText(line) ==
    LET colons == {i \in 1..Len(line) : line[i] = ":"}
        left == IF colons = {} THEN <<>> ELSE SubSeq(line, 1, Min(colons) - 1)
        semis == {i \in 1..Len(left) : left[i] = ";"}
    IN  toUpperCase(IF semis = {} THEN left ELSE SubSeq(left, 1, Min(semis) - 1))

\* the text of a line after its first colon
ValueText(line) ==
    LET colons == {i \in 1..Len(line) : line[i] = ":"}
    IN  SubSeq(line, Min(colons) + 1, Len(line))

\* C19: the properties extracted are those of the lines strictly inside the
\* bounded region, the last line of a key giving its value; lines before the
\* begin marker and from the end marker on give nothing, and a file with no
\* bounded region gives the empty property set.
C19_PropsFromRegionOnly ==
    Returned("parseIcsProperties") =>
        \A region \in {BoundedRegion(helperIn.lines)} :
            LET keyed == {i \in 1..Len(region) :
                            KeyText(region[i]) # <<>> /\ region[i] # BEGIN_VTODO}
            IN  /\ DOMAIN helperOut = {KeyText(region[i]) : i \in keyed}
                /\ \A i \in keyed :
                      (\A j \in keyed : j > i => KeyText(region[j]) # KeyText(region[i]))
                          => helperOut[KeyText(region[i])] = ValueText(region[i])

\* C20: upsertProperty replaces exactly the first line whose key equals the
\* key without regard to case by KEY:value and leaves every other line and
\* the number of lines as they are; when no line has the key it appends the
\* one line KEY:value and leaves the lines there are as they are.
C20_UpsertFirstOrAppend ==
    Returned("upsertProperty") =>
        LET lines == helperIn.lines
            newLine == toUpperCase(helperIn.key) \o <<":">> \o helperIn.value
            matches == {i \in 1..Len(lines) : KeyText(lines[i]) = toUpperCase(helperIn.key)}
        IN  IF matches # {}
            THEN /\ Len(helperOut) = Len(lines)
                 /\ helperOut[Min(matches)] = newLine
                 /\ \A i \in 1..Len(lines) : i # Min(matches) => helperOut[i] = lines[i]
            ELSE /\ Len(helperOut) = Len(lines) + 1
                 /\ helperOut[Len(helperOut)] = newLine
                 /\ \A i \in 1..Len(lines) : helperOut[i] = lines[i]

\* of three lines the second and the third have the key A in two spellings;
\* the second was replaced and the third was kept
C20_Witness ==
    /\ Returned("upsertProperty")
    /\ helperIn.key = <<"a">>
    /\ helperIn.value = <<"x", ":", "y">>
    /\ helperIn.lines = <<<<"B", ":", "3">>, <<"a", ";", "X", "=", "2", ":", "2">>,
                          <<"A", ":", "1">>>>
    /\ helperOut = <<<<"B", ":", "3">>, <<"A", ":", "x", ":", "y">>, <<"A", ":", "1">>>>

\* the parts of the summary are the pieces of the raw value between the
\* delimiters, trimmed, the empty ones left out, in their order; every
\* configured field name is a key of the fields, and no other
SummaryPartsAndKeys ==
    LET pieces == Split(helperIn.summaryRaw, modifierConfig.summaryTrennzeichen)
        kept == {i \in 1..Len(pieces) : Trim(pieces[i]) # <<>>}
        Before(i) == Cardinality({j \in kept : j < i})
        names == modifierConfig.summaryInhalt
    IN  /\ helperOut.raw = helperIn.summaryRaw
        /\ Len(helperOut.teile) = Cardinality(kept)
        /\ \A i \in kept : helperOut.teile[Before(i) + 1] = Trim(pieces[i])
        /\ DOMAIN helperOut.felder = {names[i] : i \in 1..Len(names)}

\* field i holds part i, the empty string when there is no part i
FieldHoldsPart(i) ==
    helperOut.felder[modifierConfig.summaryInhalt[i]]
        = IF i <= Len(helperOut.teile) THEN helperOut.teile[i] ELSE <<>>

\* C22 as stated: the parts are the trimmed non-empty pieces in order, the
\* fields have exactly the configured names as keys, field i holds part i,
\* and a field at or beyond the number of parts holds the empty string.
C22_SummaryFieldsByPosition ==
    Returned("parseSummary") =>
        /\ SummaryPartsAndKeys
        /\ \A i \in 1..Len(modifierConfig.summaryInhalt) : FieldHoldsPart(i)

\* C22 amended: as stated for the field names that occur once in the
\* configured list; a name that occurs more than once holds the part of its
\* last position.
C22_SummaryFieldsByLastPosition ==
    Returned("parseSummary") =>
        /\ SummaryPartsAndKeys
        /\ \A i \in 1..Len(modifierConfig.summaryInhalt) :
              (\A j \in (i + 1)..Len(modifierConfig.summaryInhalt) :
                  modifierConfig.summaryInhalt[j] # modifierConfig.summaryInhalt[i])
              => FieldHoldsPart(i)

\* " a // //b c//" with the fields H, O, A gave the parts "a" and "b c", the
\* fields H and O holding them and the field A empty
C22_Witness ==
    /\ Returned("parseSummary")
    /\ modifierConfig.summaryTrennzeichen = <<"/", "/">>
    /\ modifierConfig.summaryInhalt = <<<<"H">>, <<"O">>, <<"A">>>>
    /\ helperIn.summaryRaw
         = <<" ", "a", " ", "/", "/", " ", "/", "/", "b", " ", "c", "/", "/">>
    /\ helperOut.teile = <<<<"a">>, <<"b", " ", "c">>>>
    /\ helperOut.felder[<<"H">>] = <<"a">>
    /\ helperOut.felder[<<"O">>] = <<"b", " ", "c">>
    /\ helperOut.felder[<<"A">>] = <<>>

\* the lines parseIcsProperties collects as inside the region
LinesRead(content) == InVtodoLoop(unfoldIcsLines(content), FALSE, <<>>)

\* the lines between the begin and end indices of getVtodoBounds, none
\* when it returns null
LinesBounded(content) ==
    LET lines == unfoldIcsLines(content)
        bounds == getVtodoBounds(lines)
    IN  IF bounds = NoBounds THEN <<>>
        ELSE SubSeq(lines, bounds.begin + 2, bounds.end)

\* C27: the lines parseIcsProperties reads as the region are the lines
\* between the indices getVtodoBounds returns, and it yields properties only
\* when getVtodoBounds returns a region, also when an end marker precedes the
\* begin marker or is missing.
C27_ReadAndWriteAgreeOnRegion ==
    Returned("parseIcsProperties") =>
        /\ LinesRead(helperIn.content) = LinesBounded(helperIn.content)
        /\ getVtodoBounds(unfoldIcsLines(helperIn.content)) = NoBounds
              => helperOut = EmptyProps

\* C28: a text that was escaped and then unescaped is the text it was, for
\* every text over backslash, newline, comma, semicolon, the letter n and
\* ordinary characters.
C28_EscapeRoundTrips ==
    Returned("escapeIcsText") => helperOut = helperIn.value

\* the uid has a character outside A-Z, a-z, 0-9 and the hyphen
UidOutsideAlphabet(uid) ==
    \E i \in 1..Len(uid) :
        uid[i] \notin {LowerLetters[k] : k \in 1..26} \cup {UpperLetters[k] : k \in 1..26}
                       \cup {Digits[d] : d \in 1..10} \cup {"-"}

\* the index text, whitespace around it apart, is the decimal literal of an
\* integer that is not negative
NonNegativeIntegerText(index) ==
    LET text == Trim(index)
        unsigned == IF text # <<>> /\ text[1] \in {"+", "-"} THEN Tail(text) ELSE text
        dots == {i \in 1..Len(unsigned) : unsigned[i] = "."}
        whole == IF dots = {} THEN unsigned ELSE SubSeq(unsigned, 1, Min(dots) - 1)
        fraction == IF dots = {} THEN <<>> ELSE SubSeq(unsigned, Min(dots) + 1, Len(unsigned))
        digits == {Digits[d] : d \in 1..10}
    IN  /\ whole # <<>>
        /\ \A i \in 1..Len(whole) : whole[i] \in digits
        /\ \A i \in 1..Len(fraction) : fraction[i] = "0"
        /\ text[1] = "-" => \A i \in 1..Len(whole) : whole[i] = "0"

\* the body is an object that has neither status nor hinweis, or a status
\* that is not a boolean, or a hinweis that is not a string
BodyInvalid(body) ==
    \/ body.json = "object" /\ body.status = Undefined /\ body.hinweis = Undefined
    \/ \E v \in body.status : v.type # "boolean"
    \/ \E v \in body.hinweis : v.type # "string"

\* C30: a request with a uid outside [A-Za-z0-9-], with an index that is
\* not a non-negative integer, or with a body that has neither status nor
\* hinweis or has one of a wrong type is answered with 400 and no task file
\* is read or written; for an accepted uid the one path accessed is
\* data/tasks/<uid>.ics in the task directory.
C30_OnlyValidatedRequestsTouchFiles ==
    Returned("PATCH") =>
        /\ (\/ UidOutsideAlphabet(helperIn.uid)
            \/ ~NonNegativeIntegerText(helperIn.index)
            \/ BodyInvalid(helperIn.body))
              => helperOut = Rejected(400)
        /\ \A update \in helperOut.update :
              update.filePath =
                  Cwd \o <<"/", "d", "a", "t", "a", "/", "t", "a", "s", "k", "s", "/">>
                      \o helperIn.uid \o <<".", "i", "c", "s">>

-----------------------------------------------------------------------------
(* Claims about updates of one subtask, checked under Spec.                *)

\* the subtasks of the content the call of p read
SubtasksRead(p) == parseTaskFromIcsContent(call[p].readContent).unteraufgaben

\* C21: after a successful setUnteraufgabeHinweisInFile(path, i, h) with a
\* valid index i, re-reading the file yields subtask i with the hint
\* normalizeHinweis(h), no hint when that is empty, and with the done flag
\* it had.
C21_HinweisIsStored ==
    \A p \in Proc :
        (/\ JustWrote(p)
         /\ call[p].op = "update"
         /\ call[p].patch.hinweis # Undefined
         /\ call[p].patch.status = Undefined)
        => \A reread \in {ReadUnteraufgaben} :
              LET i == call[p].index + 1
              IN  /\ i <= Len(reread)
                  /\ reread[i].hinweis = normalizeHinweis(Default(call[p].patch.hinweis, <<>>))
                  /\ reread[i].status = SubtasksRead(p)[i].status

\* C25: a successful updateUnteraufgabeInFile leaves the number and the
\* order of the subtasks, the unlocked flag and the title of every subtask
\* as they were read, and the done flag and hint of every subtask but the
\* targeted one.
C25_UpdateTouchesOneSubtask ==
    \A p \in Proc :
        (JustWrote(p) /\ call[p].op = "update")
        => \A reread \in {ReadUnteraufgaben} :
              LET before == SubtasksRead(p)
              IN  /\ Len(reread) = Len(before)
                  /\ \A j \in 1..Len(before) :
                        /\ j <= Len(reread)
                        /\ reread[j].freigegeben = before[j].freigegeben
                        /\ reread[j].titel = before[j].titel
                        /\ j # call[p].index + 1
                              => /\ reread[j].status = before[j].status
                                 /\ reread[j].hinweis = before[j].hinweis

\* the DESCRIPTION value the write of p upserted, decoded
DecodedWritten(p) ==
    parseUnteraufgaben(
        unescapeIcsText(escapeIcsText(buildDescriptionValue(listToWrite(call[p], call[p].readContent)))))

\* C26: the subtask list read after a write is the decoding of the encoded
\* list that was written, also when the region has more than one
\* DESCRIPTION line.
C26_ReadsBackWhatWasWritten ==
    \A p \in Proc : JustWrote(p) => ReadUnteraufgaben = DecodedWritten(p)

=============================================================================
